---- MODULE Spec2Model ----
(***************************************************************************)
(* Back-testing research tool: the event-driven backtest engine            *)
(* (core/backtest/engine.py) driving the portfolio                         *)
(* (core/backtest/portfolio.py).                                           *)
(*                                                                         *)
(* Numbers.  The program computes on Python floats.  The model computes on *)
(* exact rationals <<n, d>> (d > 0, lowest terms), so an equality of the   *)
(* model is an equality of the real-number values the floats approximate.  *)
(*                                                                         *)
(* Strategy.  The engine only sees what calculate_signals returns, so the  *)
(* strategy is any function of the bar: it answers None, HOLD, BUY or SELL *)
(* and stamps the signal with the market event's timestamp and symbol, as  *)
(* every strategy of the repository does.                                  *)
(***************************************************************************)
EXTENDS Integers, Sequences, FiniteSets, TLC

\* ------------------------------------------------------------------------
\* Bounds and input sets
\* ------------------------------------------------------------------------

\* Longest candle series that is run.
MaxBars == 3

\* ------------------------------------------------------------------------
\* Exact rational arithmetic (the values Python's float operators compute,
\* without rounding)
\* ------------------------------------------------------------------------

RECURSIVE GCD(_, _)
GCD(a, b) == IF b = 0 THEN a ELSE GCD(b, a % b)

IAbs(x) == IF x < 0 THEN -x ELSE x

Norm(n, d) ==
    LET g == GCD(IAbs(n), IAbs(d))
        s == IF d < 0 THEN -1 ELSE 1
    IN  <<(s * n) \div g, (s * d) \div g>>

Rat(n, d) == Norm(n, d)

RInt(n) == <<n, 1>>

RAdd(x, y) == Norm(x[1] * y[2] + y[1] * x[2], x[2] * y[2])

RSub(x, y) == Norm(x[1] * y[2] - y[1] * x[2], x[2] * y[2])

RMul(x, y) == Norm(x[1] * y[1], x[2] * y[2])

RDiv(x, y) == Norm(x[1] * y[2], x[2] * y[1])

RLt(x, y) == x[1] * y[2] < y[1] * x[2]

RLe(x, y) == x[1] * y[2] <= y[1] * x[2]

RGt(x, y) == RLt(y, x)

RAbs(x) == <<IAbs(x[1]), x[2]>>

RMax(x, y) == IF RLt(x, y) THEN y ELSE x

RMin(x, y) == IF RLt(y, x) THEN y ELSE x

Zero == RInt(0)

One == RInt(1)

\* ------------------------------------------------------------------------
\* Inputs of a run
\* ------------------------------------------------------------------------

\* Closing prices a bar may carry.
ClosePrices == {RInt(1), RInt(4)}

\* Difference of consecutive open_time values: 1 is an increasing series,
\* 0 a repeated timestamp.
Gaps == {0, 1}

InitialCapitals == {RInt(100)}

CommissionRates == {Zero, Rat(1, 4)}

SlippageRates == {Zero, Rat(1, 4)}

\* position_size_pct as handed to the constructor, before it is clamped.
PositionSizePcts == {Rat(-1, 2), Zero, Rat(1, 2), One, RInt(2)}

SignalTypes == {"BUY", "SELL", "HOLD"}

\* Optional values: None is the empty sequence, a value x is <<x>>.
None == <<>>

Some(x) == <<x>>

Bar == [open_time : 1..(MaxBars + 1), close : ClosePrices]

\* The candle series of length n whose first open_time is 1.
SeriesOfLen(n) ==
    {s \in [1..n -> Bar] :
        /\ n > 0 => s[1].open_time = 1
        /\ \A i \in 1..(n - 1) : (s[i + 1].open_time - s[i].open_time) \in Gaps}

CandleSeries == UNION {SeriesOfLen(n) : n \in 0..MaxBars}

StrictlyIncreasing(s) ==
    \A i \in 1..(Len(s) - 1) : s[i].open_time < s[i + 1].open_time

\* ------------------------------------------------------------------------
\* State
\* ------------------------------------------------------------------------

VARIABLES
    data,               \* BacktestEngine.data: the candle series
    initial_capital,    \* BacktestEngine.initial_capital
    commission_rate,    \* BacktestEngine.commission_rate
    slippage_rate,      \* BacktestEngine.slippage_rate
    position_size_pct,  \* BacktestEngine.position_size_pct (clamped)
    bars_processed,     \* BacktestEngine.bars_processed
    signals_generated,  \* BacktestEngine.signals_generated
    orders_executed,    \* BacktestEngine.orders_executed
    current_cash,       \* Portfolio.current_cash
    positions,          \* Portfolio.positions: symbol -> Position
    trades,             \* Portfolio.trades
    equity_curve,       \* Portfolio.equity_curve: <<timestamp, value>>
    fills,              \* Portfolio._fills
    pc,                 \* position of run() inside its loop
    market_event,       \* run(): local market_event
    signal_event,       \* run(): local signal_event
    order,              \* _process_signal(): local order
    fill,               \* _process_signal(): local fill
    enable_regime_detection,    \* BacktestEngine.enable_regime_detection
    data_with_indicators,   \* BacktestEngine.data_with_indicators: regime rows
    regime_filter,          \* CompositeStrategy.regime_filter
    sub_regime_filter,      \* CompositeStrategy.sub_regime_filter
    _entry_signals,         \* CompositeStrategy._entry_signals
    _exit_signals,          \* CompositeStrategy._exit_signals
    _in_position,           \* CompositeStrategy._in_position
    _regime_skipped_count,  \* CompositeStrategy._regime_skipped_count
    entry_logic,            \* CompositeStrategy.entry_logic: a LogicNode
    exit_logic,             \* CompositeStrategy.exit_logic: a LogicNode
    indicator_values,       \* the series calculate_indicator(data) yields
    index,                  \* evaluate(data, index): the index argument
    result,                 \* what evaluate(data, index) returned
    subject,                \* the object to_dict is called on
    as_dict,                \* what to_dict returned
    restored,               \* what from_dict made of it
    first_run,              \* what an earlier run on these inputs returned
    classifier,             \* MarketRegimeClassifier.adaptive_thresholds
    frame,                  \* the rows handed to the classifier, in order
    regimes,                \* what detect_regime returned, row by row
    samples,                \* every pair update() was called with directly
    call,                   \* a function called on its own: name and arguments
    returned,               \* what that call returned, or the error it raised
    built_in                \* the built-in strategy object the engine drives

config == <<data, initial_capital, commission_rate, slippage_rate,
            position_size_pct, enable_regime_detection, data_with_indicators>>

\* Pointwise evaluation of a logic tree, and a serialization round trip.
evaluation == <<entry_logic, exit_logic, indicator_values, index, result>>

serialization == <<subject, as_dict, restored>>

\* A classifier used on its own, bar by bar.
classification == <<classifier, frame, regimes, samples>>

\* One function called on its own.
calls == <<call, returned>>

\* What lies outside the run at hand.
apart == <<first_run, classification, calls, built_in>>

offline == <<evaluation, serialization, apart>>

\* The state of the strategy instance the engine drives.
strategy == <<regime_filter, sub_regime_filter, _entry_signals, _exit_signals,
              _in_position, _regime_skipped_count>>

portfolio == <<current_cash, positions, trades, fills>>

locals == <<market_event, signal_event, order, fill>>

vars == <<data, initial_capital, commission_rate, slippage_rate,
          position_size_pct, bars_processed, signals_generated,
          orders_executed, current_cash, positions, trades, equity_curve,
          fills, pc, market_event, signal_event, order, fill,
          enable_regime_detection, data_with_indicators, regime_filter, sub_regime_filter,
          _entry_signals, _exit_signals, _in_position, _regime_skipped_count,
          entry_logic, exit_logic, indicator_values, index, result, subject,
          as_dict, restored, first_run, classifier, frame, regimes, samples,
          call, returned, built_in>>

symbol == "BTC/USDT"

\* The bar the loop is at, and its index value.
bar == data[bars_processed]

timestamp == bar.open_time

\* ------------------------------------------------------------------------
\* Events
\* ------------------------------------------------------------------------

\* metadata is None for {} and Some(r) for {'regime': r}.
MarketEvent(ts, sym, close, metadata) == [timestamp |-> ts, symbol |-> sym, close |-> close, metadata |-> metadata]

SignalEvent(ts, sym, signal_type) ==
    [timestamp |-> ts, symbol |-> sym, signal_type |-> signal_type]

OrderEvent(ts, sym, order_type, quantity, direction) ==
    [timestamp |-> ts, symbol |-> sym, order_type |-> order_type,
     quantity |-> quantity, direction |-> direction]

FillEvent(ts, sym, quantity, direction, fill_price, commission, slippage) ==
    [timestamp |-> ts, symbol |-> sym, quantity |-> quantity,
     direction |-> direction, fill_price |-> fill_price,
     commission |-> commission, slippage |-> slippage]

\* FillEvent.cost: what a BUY costs, and the proceeds of a SELL as a
\* negative cost.
cost(f) ==
    IF f.direction = "BUY"
    THEN RAdd(RMul(f.quantity, f.fill_price), f.commission)
    ELSE RSub(Zero, RSub(RMul(f.quantity, f.fill_price), f.commission))

\* ------------------------------------------------------------------------
\* Portfolio (core/backtest/portfolio.py)
\* ------------------------------------------------------------------------

\* Trade.__init__ with the entry commission left out of pnl.
Trade_NoEntryCommission(entry_time, exit_time, sym, direction, entry_price, exit_price, quantity, entry_commission, exit_commission) ==
    LET gross_pnl == IF direction = "LONG"
                     THEN RMul(RSub(exit_price, entry_price), quantity)
                     ELSE RMul(RSub(entry_price, exit_price), quantity)
        pnl == RSub(gross_pnl, exit_commission)
    IN  [entry_time |-> entry_time, exit_time |-> exit_time, symbol |-> sym,
         direction |-> direction, entry_price |-> entry_price,
         exit_price |-> exit_price, quantity |-> quantity,
         entry_commission |-> entry_commission,
         exit_commission |-> exit_commission,
         pnl |-> pnl,
         return_pct |-> RMul(RDiv(pnl, RMul(entry_price, quantity)), RInt(100)),
         duration |-> exit_time - entry_time]

\* Trade.__init__ storing the exit time as the entry time.
Trade_ExitTimeTwice(entry_time, exit_time, sym, direction, entry_price, exit_price, quantity, entry_commission, exit_commission) ==
    LET gross_pnl == IF direction = "LONG"
                     THEN RMul(RSub(exit_price, entry_price), quantity)
                     ELSE RMul(RSub(entry_price, exit_price), quantity)
        pnl == RSub(RSub(gross_pnl, entry_commission), exit_commission)
    IN  [entry_time |-> exit_time, exit_time |-> exit_time, symbol |-> sym,
         direction |-> direction, entry_price |-> entry_price,
         exit_price |-> exit_price, quantity |-> quantity,
         entry_commission |-> entry_commission,
         exit_commission |-> exit_commission,
         pnl |-> pnl,
         return_pct |-> RMul(RDiv(pnl, RMul(entry_price, quantity)), RInt(100)),
         duration |-> 0]

\* Trade.__init__: a closed trade with its derived pnl, return and duration.
Trade(entry_time, exit_time, sym, direction, entry_price, exit_price, quantity, entry_commission, exit_commission) ==
    LET gross_pnl == IF direction = "LONG"
                     THEN RMul(RSub(exit_price, entry_price), quantity)
                     ELSE RMul(RSub(entry_price, exit_price), quantity)
        pnl == RSub(RSub(gross_pnl, entry_commission), exit_commission)
    IN  [entry_time |-> entry_time, exit_time |-> exit_time, symbol |-> sym,
         direction |-> direction, entry_price |-> entry_price,
         exit_price |-> exit_price, quantity |-> quantity,
         entry_commission |-> entry_commission,
         exit_commission |-> exit_commission,
         pnl |-> pnl,
         return_pct |-> RMul(RDiv(pnl, RMul(entry_price, quantity)), RInt(100)),
         duration |-> exit_time - entry_time]

Position(sym, quantity, entry_price, entry_time, entry_commission) ==
    [symbol |-> sym, quantity |-> quantity, entry_price |-> entry_price,
     entry_time |-> entry_time, entry_commission |-> entry_commission]

\* Position.unrealized_pnl
unrealized_pnl(pos, current_price) ==
    RMul(RSub(current_price, pos.entry_price), pos.quantity)

\* The dict of positions with no entry, with one entry put, with one removed.
NoPositions == [s \in {} |-> 0]

PutPosition(ps, sym, pos) ==
    [s \in (DOMAIN ps) \cup {sym} |-> IF s = sym THEN pos ELSE ps[s]]

DelPosition(ps, sym) == [s \in (DOMAIN ps) \ {sym} |-> ps[s]]

\* Portfolio.has_position
has_position(sym) == sym \in DOMAIN positions

\* Portfolio.get_position: the position, or None
get_position(sym) == IF sym \in DOMAIN positions THEN Some(positions[sym]) ELSE None

\* abs(fill.quantity - pos.quantity) < 1e-8, for x >= 0 in lowest terms
ToleranceDen == 100000000

BelowTolerance(x) == x[1] <= (x[2] - 1) \div ToleranceDen

\* Portfolio.update_from_fill: the portfolio after the fill f, as the record
\* of the four fields it may change.
update_from_fill(f, current_price) ==
    LET sym == f.symbol
        fills1 == Append(fills, f)
    IN  IF f.direction = "BUY"
        THEN LET positions1 ==
                    IF sym \in DOMAIN positions
                    THEN LET pos == positions[sym]
                             total_cost == RAdd(RMul(pos.quantity, pos.entry_price),
                                                RMul(f.quantity, f.fill_price))
                             total_quantity == RAdd(pos.quantity, f.quantity)
                         IN  PutPosition(positions, sym,
                                Position(sym, total_quantity,
                                         RDiv(total_cost, total_quantity),
                                         pos.entry_time,
                                         RAdd(pos.entry_commission, f.commission)))
                    ELSE PutPosition(positions, sym,
                            Position(sym, f.quantity, f.fill_price, f.timestamp,
                                     f.commission))
             IN  [current_cash |-> RSub(current_cash, cost(f)),
                  positions |-> positions1, trades |-> trades, fills |-> fills1]
        ELSE IF f.direction = "SELL"
        THEN IF sym \in DOMAIN positions
             THEN LET pos == positions[sym]
                      full == BelowTolerance(RAbs(RSub(f.quantity, pos.quantity)))
                  IN  [current_cash |-> RAdd(current_cash, RAbs(cost(f))),
                       positions |->
                          IF full
                          THEN DelPosition(positions, sym)
                          ELSE PutPosition(positions, sym,
                                  [pos EXCEPT !.quantity = RSub(pos.quantity, f.quantity)]),
                       trades |->
                          IF full
                          THEN Append(trades,
                                  Trade(pos.entry_time, f.timestamp, sym, "LONG",
                                        pos.entry_price, f.fill_price, pos.quantity,
                                        pos.entry_commission, f.commission))
                          ELSE trades,
                       fills |-> fills1]
             ELSE [current_cash |-> current_cash, positions |-> positions,
                   trades |-> trades, fills |-> fills1]
        ELSE [current_cash |-> current_cash, positions |-> positions,
              trades |-> trades, fills |-> fills1]

RECURSIVE SumPositionValue(_, _)
SumPositionValue(syms, price) ==
    IF syms = {} THEN Zero
    ELSE LET s == CHOOSE x \in syms : TRUE
         IN  RAdd(RMul(positions[s].quantity, price),
                  SumPositionValue(syms \ {s}, price))

\* Portfolio.current_value counting the cash only.
current_value_CashOnly(price) == current_cash

\* Portfolio.current_value, with current_prices = {symbol: price}
current_value(price) ==
    RAdd(current_cash, SumPositionValue((DOMAIN positions) \cap {symbol}, price))

\* Portfolio.record_equity keeping the latest mark only.
record_equity_Overwrite(ts, portfolio_value) == <<<<ts, portfolio_value>>>>

\* Portfolio.record_equity
record_equity(ts, portfolio_value) == Append(equity_curve, <<ts, portfolio_value>>)

\* Portfolio.total_trades
total_trades == Len(trades)

\* ------------------------------------------------------------------------
\* Engine (core/backtest/engine.py)
\* ------------------------------------------------------------------------

\* BacktestEngine.__init__: position_size_pct is clamped into [0, 1]
ClampPositionSize(p) == RMax(Zero, RMin(One, p))

\* data_with_indicators.loc[timestamp]: the regime row of the bar that
\* carries the timestamp.
RegimeRow(ts) ==
    data_with_indicators[1][CHOOSE i \in 1..Len(data) : data[i].open_time = ts]

\* BacktestEngine._create_market_event (OHLCV reduced to the close, the only
\* price the engine reads); the regime row goes into the metadata when
\* regime detection prepared one.
_create_market_event(ts, b) ==
    MarketEvent(ts, symbol, b.close,
                IF enable_regime_detection /\ data_with_indicators # None
                THEN Some(RegimeRow(ts))
                ELSE None)

\* BacktestEngine._create_buy_order accepting a quantity of zero.
_create_buy_order_AllowZero(signal, current_price) ==
    LET available_capital == RMul(current_cash, position_size_pct)
        max_cost == RDiv(available_capital, RAdd(One, commission_rate))
        quantity == RDiv(max_cost, current_price)
    IN  IF RLe(Zero, quantity)
        THEN Some(OrderEvent(signal.timestamp, signal.symbol, "MARKET", quantity, "BUY"))
        ELSE None

\* BacktestEngine._create_buy_order: the order, or None
_create_buy_order(signal, current_price) ==
    LET available_capital == RMul(current_cash, position_size_pct)
        max_cost == RDiv(available_capital, RAdd(One, commission_rate))
        quantity == RDiv(max_cost, current_price)
    IN  IF RGt(quantity, Zero)
        THEN Some(OrderEvent(signal.timestamp, signal.symbol, "MARKET", quantity, "BUY"))
        ELSE None

\* BacktestEngine._create_sell_order selling half of the open quantity.
_create_sell_order_Half(signal, current_price) ==
    LET position == get_position(signal.symbol)
    IN  IF position # None /\ RGt(position[1].quantity, Zero)
        THEN Some(OrderEvent(signal.timestamp, signal.symbol, "MARKET",
                             RDiv(position[1].quantity, RInt(2)), "SELL"))
        ELSE None

\* BacktestEngine._create_sell_order: the order, or None
_create_sell_order(signal, current_price) ==
    LET position == get_position(signal.symbol)
    IN  IF position # None /\ RGt(position[1].quantity, Zero)
        THEN Some(OrderEvent(signal.timestamp, signal.symbol, "MARKET",
                             position[1].quantity, "SELL"))
        ELSE None

\* BacktestEngine._execute_order
_execute_order(o, market_price) ==
    LET fill_price == IF o.direction = "BUY"
                      THEN RMul(market_price, RAdd(One, slippage_rate))
                      ELSE RMul(market_price, RSub(One, slippage_rate))
        trade_value == RMul(o.quantity, fill_price)
        commission == RMul(trade_value, commission_rate)
    IN  FillEvent(o.timestamp, o.symbol, o.quantity, o.direction, fill_price,
                  commission, slippage_rate)

\* What calculate_signals may return for the event ev.
StrategyAnswers(ev) ==
    {None} \cup {Some(SignalEvent(ev.timestamp, ev.symbol, t)) : t \in SignalTypes}

\* BacktestEngine._process_signal buying without the position check.
OrderFor_NoPositionCheck(signal, current_price) ==
    IF signal.signal_type = "BUY"
    THEN _create_buy_order(signal, current_price)
    ELSE IF signal.signal_type = "SELL"
    THEN IF has_position(symbol)
         THEN _create_sell_order(signal, current_price)
         ELSE None
    ELSE None

\* BacktestEngine._process_signal up to the order: the order made for the
\* signal, or None when the signal is refused.
OrderFor(signal, current_price) ==
    IF signal.signal_type = "BUY"
    THEN IF ~has_position(symbol)
         THEN _create_buy_order(signal, current_price)
         ELSE None
    ELSE IF signal.signal_type = "SELL"
    THEN IF has_position(symbol)
         THEN _create_sell_order(signal, current_price)
         ELSE None
    ELSE None

\* No logic tree is under pointwise evaluation.
NoEvaluation ==
    /\ entry_logic = None
    /\ exit_logic = None
    /\ indicator_values = None
    /\ index = None
    /\ result = None

\* No strategy instance exists.
NoStrategy ==
    /\ regime_filter = None
    /\ sub_regime_filter = None
    /\ _entry_signals = None
    /\ _exit_signals = None
    /\ _in_position = FALSE
    /\ _regime_skipped_count = 0

\* No classifier is used on its own.
NoClassification ==
    /\ classifier = None
    /\ frame = <<>>
    /\ regimes = <<>>
    /\ samples = <<>>

\* No function is called on its own.
NoCall ==
    /\ call = None
    /\ returned = None

\* The engine drives no built-in strategy.
NoBuiltIn == built_in = None

\* No object is being serialized.
NoSerialization ==
    /\ subject = None
    /\ as_dict = None
    /\ restored = None

\* ------------------------------------------------------------------------
\* Initial state: a constructed engine with a fresh portfolio
\* ------------------------------------------------------------------------

Init ==
    /\ data \in CandleSeries
    /\ initial_capital \in InitialCapitals
    /\ commission_rate \in CommissionRates
    /\ slippage_rate \in SlippageRates
    /\ position_size_pct \in {ClampPositionSize(p) : p \in PositionSizePcts}
    /\ bars_processed = 0
    /\ signals_generated = 0
    /\ orders_executed = 0
    /\ current_cash = initial_capital
    /\ positions = NoPositions
    /\ trades = <<>>
    /\ equity_curve = <<>>
    /\ fills = <<>>
    /\ pc = "bar"
    /\ market_event = None
    /\ signal_event = None
    /\ order = None
    /\ fill = None
    /\ enable_regime_detection = FALSE
    /\ data_with_indicators = None
    /\ regime_filter = None
    /\ sub_regime_filter = None
    /\ _entry_signals = None
    /\ _exit_signals = None
    /\ _in_position = FALSE
    /\ _regime_skipped_count = 0
    /\ NoEvaluation
    /\ NoSerialization
    /\ first_run = None
    /\ NoClassification
    /\ NoCall
    /\ NoBuiltIn

\* ------------------------------------------------------------------------
\* run(): one action per statement of the loop body
\* ------------------------------------------------------------------------

\* for timestamp, bar in data.iterrows(): bars_processed += 1;
\* market_event = _create_market_event(timestamp, bar)
CreateMarketEvent ==
    /\ pc = "bar"
    /\ bars_processed < Len(data)
    /\ bars_processed' = bars_processed + 1
    /\ market_event' = Some(_create_market_event(data[bars_processed + 1].open_time,
                                                 data[bars_processed + 1]))
    /\ pc' = "signal"
    /\ UNCHANGED <<config, strategy, offline, signals_generated, orders_executed, portfolio,
                   equity_curve, signal_event, order, fill>>

\* signal_event = _generate_signal(market_event); if signal_event: ...
GenerateSignal ==
    /\ pc = "signal"
    /\ \E s \in StrategyAnswers(market_event[1]) :
        /\ signal_event' = s
        /\ signals_generated' =
              IF s # None /\ s[1].signal_type # "HOLD"
              THEN signals_generated + 1
              ELSE signals_generated
        /\ pc' = IF s # None THEN "process" ELSE "record"
    /\ UNCHANGED <<config, strategy, offline, bars_processed, orders_executed, portfolio,
                   equity_curve, market_event, order, fill>>

\* _process_signal leaving the order it made for a later bar.
ProcessSignal_Queued ==
    /\ pc = "process"
    /\ order' = OrderFor(signal_event[1], bar.close)
    /\ pc' = "record"
    /\ UNCHANGED <<config, strategy, offline, bars_processed, signals_generated, orders_executed,
                   portfolio, equity_curve, market_event, signal_event, fill>>

\* _process_signal: the position check and _create_buy_order /
\* _create_sell_order; if order: ...
ProcessSignal ==
    /\ pc = "process"
    /\ order' = OrderFor(signal_event[1], bar.close)
    /\ pc' = IF order' # None THEN "execute" ELSE "record"
    /\ UNCHANGED <<config, strategy, offline, bars_processed, signals_generated, orders_executed,
                   portfolio, equity_curve, market_event, signal_event, fill>>

\* _process_signal: fill = _execute_order(order, current_price)
ExecuteOrder ==
    /\ pc = "execute"
    /\ fill' = Some(_execute_order(order[1], bar.close))
    /\ pc' = "update"
    /\ UNCHANGED <<config, strategy, offline, bars_processed, signals_generated, orders_executed,
                   portfolio, equity_curve, market_event, signal_event, order>>

\* _process_signal: portfolio.update_from_fill(fill, current_price);
\* orders_executed += 1; return
UpdateFromFill ==
    /\ pc = "update"
    /\ LET p == update_from_fill(fill[1], bar.close)
       IN  /\ current_cash' = p.current_cash
           /\ positions' = p.positions
           /\ trades' = p.trades
           /\ fills' = p.fills
    /\ orders_executed' = orders_executed + 1
    /\ order' = None
    /\ fill' = None
    /\ pc' = "record"
    /\ UNCHANGED <<config, strategy, offline, bars_processed, signals_generated, equity_curve,
                   market_event, signal_event>>

\* portfolio_value = portfolio.current_value({symbol: bar['close']});
\* portfolio.record_equity(timestamp, portfolio_value)
RecordEquity ==
    /\ pc = "record"
    /\ equity_curve' = record_equity(timestamp, current_value(bar.close))
    /\ pc' = "bar"
    /\ UNCHANGED <<config, strategy, offline, bars_processed, signals_generated, orders_executed,
                   portfolio, market_event, signal_event, order, fill>>

\* the loop is exhausted: run() returns portfolio, equity_curve and trades
Finish ==
    /\ pc = "bar"
    /\ bars_processed = Len(data)
    /\ pc' = "done"
    /\ UNCHANGED <<config, strategy, offline, bars_processed, signals_generated, orders_executed,
                   portfolio, equity_curve, locals>>

Next ==
    \/ CreateMarketEvent
    \/ GenerateSignal
    \/ ProcessSignal
    \/ ExecuteOrder
    \/ UpdateFromFill
    \/ RecordEquity
    \/ Finish

Spec == Init /\ [][Next]_vars

\* ------------------------------------------------------------------------
\* Properties of an engine run
\* ------------------------------------------------------------------------

\* The equity mark of bar number bars_processed has just been taken (or the
\* run has returned after it).
AtMark == pc \in {"bar", "done"} /\ bars_processed > 0

\* The last equity mark.
LastEquity == equity_curve[Len(equity_curve)]

\* Value of the open positions at a price, from the positions themselves.
OpenPositionValue(price) ==
    IF symbol \in DOMAIN positions
    THEN RMul(positions[symbol].quantity, price)
    ELSE Zero

RECURSIVE SumPnl(_)
SumPnl(ts) == IF ts = <<>> THEN Zero ELSE RAdd(ts[1].pnl, SumPnl(Tail(ts)))

\* Unrealized pnl of the open positions at a price: (price - entry) * qty.
OpenUnrealizedPnl(price) ==
    IF symbol \in DOMAIN positions
    THEN unrealized_pnl(positions[symbol], price)
    ELSE Zero

\* Entry commission already paid for the open positions.
OpenEntryCommission ==
    IF symbol \in DOMAIN positions THEN positions[symbol].entry_commission ELSE Zero

\* C1: with position_size_pct <= 1, commission_rate >= 0 and
\* slippage_rate >= 0, cash is >= 0 at every equity mark.
C1_CashNonNegative == AtMark => RLe(Zero, current_cash)

\* C2: at every equity mark the recorded value is cash plus quantity times
\* the bar's close over the open positions, on the portfolio as it is after
\* the fill of that bar.
C2_EquityIdentity ==
    AtMark =>
        /\ Len(equity_curve) > 0
        /\ LastEquity[2] = RAdd(current_cash, OpenPositionValue(bar.close))

\* C2 witness: a mark taken on a bar that bought, the position still open.
C2_Witness ==
    /\ AtMark
    /\ has_position(symbol)
    /\ positions[symbol].entry_time = timestamp
    /\ Len(equity_curve) = bars_processed
    /\ LastEquity[2] # current_cash

\* C3 as stated: after a run the pnl of the closed trades sums to
\* final_equity - initial_capital - unrealized pnl of the open positions.
C3_TradeAccountingAsStated ==
    (pc = "done" /\ Len(equity_curve) > 0) =>
        SumPnl(trades) =
            RSub(RSub(LastEquity[2], initial_capital), OpenUnrealizedPnl(bar.close))

\* C3 amended: after a run the pnl of the closed trades sums to
\* final_equity - initial_capital - unrealized pnl of the open positions
\* + the entry commission paid for the open positions.
C3_TradeAccounting ==
    (pc = "done" /\ Len(equity_curve) > 0) =>
        SumPnl(trades) =
            RAdd(RSub(RSub(LastEquity[2], initial_capital),
                      OpenUnrealizedPnl(bar.close)),
                 OpenEntryCommission)

\* C3 witness: a finished run with a closed trade, an open position and a
\* commission paid on its entry.
C3_Witness ==
    /\ pc = "done"
    /\ Len(trades) > 0
    /\ has_position(symbol)
    /\ RGt(positions[symbol].entry_commission, Zero)
    /\ positions[symbol].entry_price # bar.close

\* C4: a BUY executed from a flat portfolio holding cash c leaves cash
\* c * (1 - position_size_pct).
C4_CashAfterBuy ==
    [][(pc = "update" /\ fill[1].direction = "BUY" /\ ~has_position(symbol)) =>
          current_cash' = RMul(current_cash, RSub(One, position_size_pct))]_vars

\* C5: a bar runs MarketEvent, strategy, at most one order, its fill, the
\* portfolio update, then one equity mark; the mark follows the fill of the
\* bar and no order or fill survives the bar.
BarOrder ==
    {<<"bar", "signal">>, <<"signal", "process">>, <<"signal", "record">>,
     <<"process", "execute">>, <<"process", "record">>,
     <<"execute", "update">>, <<"update", "record">>, <<"record", "bar">>,
     <<"bar", "done">>}

C5_Step ==
    /\ <<pc, pc'>> \in BarOrder
    /\ bars_processed' # bars_processed =>
          /\ pc = "bar" /\ pc' = "signal"
          /\ bars_processed' = bars_processed + 1
          /\ market_event' = Some(MarketEvent(data[bars_processed'].open_time,
                                              symbol, data[bars_processed'].close,
                                              None))
    /\ signal_event' # signal_event => pc = "signal"
    /\ pc = "signal" => signal_event' \in StrategyAnswers(market_event[1])
    /\ (order' # order /\ order' # None) =>
          /\ pc = "process" /\ order = None /\ pc' = "execute"
          /\ order'[1].timestamp = timestamp
    /\ (fill' # fill /\ fill' # None) =>
          /\ pc = "execute" /\ fill = None /\ order # None
          /\ fill'[1].quantity = order[1].quantity
          /\ fill'[1].direction = order[1].direction
    /\ <<current_cash, positions, trades, fills, orders_executed>>' #
       <<current_cash, positions, trades, fills, orders_executed>> =>
          /\ pc = "update" /\ fill # None
          /\ fills' = Append(fills, fill[1])
          /\ fill[1].timestamp = timestamp
          /\ orders_executed' = orders_executed + 1
          /\ Len(equity_curve) = bars_processed - 1
    /\ equity_curve' # equity_curve =>
          /\ pc = "record" /\ order = None /\ fill = None
          /\ Len(equity_curve) = bars_processed - 1
          /\ Len(equity_curve') = bars_processed
    /\ pc' \in {"bar", "done"} =>
          /\ order' = None /\ fill' = None
          /\ Len(equity_curve') = bars_processed'

C5_BarOrder == [][C5_Step]_vars

\* C5 witness: the second bar's mark is taken on a bar that had a fill.
C5_Witness ==
    /\ pc = "bar"
    /\ bars_processed >= 2
    /\ Len(fills) > 0
    /\ fills[Len(fills)].timestamp = timestamp
    /\ orders_executed = Len(fills)
    /\ Len(equity_curve) = bars_processed

\* C6: a BUY fill happens only on a flat portfolio and a SELL fill only on
\* an open position; there is at most one open position and the fills
\* alternate BUY, SELL, BUY, ... from a BUY.
C6_FillsAlternate ==
    /\ Cardinality(DOMAIN positions) <= 1
    /\ \A i \in 1..Len(fills) :
          fills[i].direction = IF i % 2 = 1 THEN "BUY" ELSE "SELL"
    /\ has_position(symbol) <=> (Len(fills) % 2 = 1)
    /\ pc = "update" =>
          /\ fill[1].direction = "BUY" => ~has_position(symbol)
          /\ fill[1].direction = "SELL" => has_position(symbol)
          /\ fill[1].direction \in {"BUY", "SELL"}

\* C6 witness: a third fill, a BUY after a BUY and a SELL.
C6_Witness == Len(fills) = 3 /\ has_position(symbol)

\* C7: a bar whose signal is None or HOLD, a BUY while long, a SELL while
\* flat or a BUY whose quantity is <= 0 leaves cash, positions, trades and
\* orders_executed as they were, and its equity mark is still appended.
SizedQuantity(price) ==
    RDiv(RDiv(RMul(current_cash, position_size_pct), RAdd(One, commission_rate)),
         price)

Refused(sig) ==
    \/ sig.signal_type = "HOLD"
    \/ sig.signal_type = "BUY" /\ has_position(symbol)
    \/ sig.signal_type = "SELL" /\ ~has_position(symbol)
    \/ /\ sig.signal_type = "BUY"
       /\ ~has_position(symbol)
       /\ RLe(SizedQuantity(bar.close), Zero)

C7_Step ==
    /\ (pc = "signal" /\ signal_event' = None) =>
          /\ pc' = "record"
          /\ UNCHANGED <<current_cash, positions, trades, orders_executed>>
    /\ (pc = "process" /\ Refused(signal_event[1])) =>
          /\ pc' = "record"
          /\ order' = None
          /\ UNCHANGED <<current_cash, positions, trades, orders_executed>>
    /\ pc = "record" =>
          /\ pc' = "bar"
          /\ equity_curve' =
                Append(equity_curve,
                       <<timestamp, RAdd(current_cash, OpenPositionValue(bar.close))>>)
          /\ UNCHANGED <<current_cash, positions, trades, orders_executed>>
    /\ <<current_cash, positions, trades, orders_executed>>' #
       <<current_cash, positions, trades, orders_executed>> =>
          /\ pc = "update"
          /\ signal_event # None
          /\ ~Refused(signal_event[1])

C7_RefusalsAreNoOps == [][C7_Step]_vars

\* C7 witness: the mark is about to be taken on a bar whose BUY was refused
\* for its quantity, the portfolio flat and out of cash after a losing trade.
C7_Witness ==
    /\ pc = "record"
    /\ signal_event # None
    /\ signal_event[1].signal_type = "BUY"
    /\ ~has_position(symbol)
    /\ RLt(current_cash, Zero)
    /\ Len(trades) = 1
    /\ orders_executed = 2

\* C8: every executed SELL has the open quantity, removes the position and
\* appends one Trade with the position's quantity, entry_price and
\* entry_commission; there is no partial exit and total_trades is the
\* number of SELL fills.
NumSells == Cardinality({i \in 1..Len(fills) : fills[i].direction = "SELL"})

C8_Step ==
    (pc = "update" /\ fill[1].direction = "SELL") =>
        /\ has_position(symbol)
        /\ fill[1].quantity = positions[symbol].quantity
        /\ ~has_position(symbol)'
        /\ Len(trades') = Len(trades) + 1
        /\ SubSeq(trades', 1, Len(trades)) = trades
        /\ LET t == trades'[Len(trades')]
               pos == positions[symbol]
           IN  /\ t.quantity = pos.quantity
               /\ t.entry_price = pos.entry_price
               /\ t.entry_commission = pos.entry_commission
               /\ t.entry_time = pos.entry_time
               /\ t.exit_price = fill[1].fill_price
               /\ t.exit_commission = fill[1].commission

C8_State ==
    /\ total_trades = NumSells
    /\ \A sym \in DOMAIN positions : RGt(positions[sym].quantity, Zero)
    /\ \A k \in 1..Len(trades) :
          /\ 2 * k <= Len(fills)
          /\ trades[k].quantity = fills[2 * k - 1].quantity
          /\ trades[k].quantity = fills[2 * k].quantity

C8_FullExits == []C8_State /\ [][C8_Step]_vars

\* C8 witness: a SELL has closed a position bought at another price.
C8_Witness ==
    /\ Len(trades) >= 1
    /\ NumSells >= 1
    /\ trades[1].entry_price # trades[1].exit_price
    /\ RGt(trades[1].entry_commission, Zero)

\* C9: over n bars the equity curve gets n entries, the i-th with the i-th
\* bar's timestamp (strictly increasing when open_time is), the last for the
\* last bar; trades and equity entries are only appended.
IsPrefixOf(s, t) == Len(s) <= Len(t) /\ SubSeq(t, 1, Len(s)) = s

C9_State ==
    /\ \A i \in 1..Len(equity_curve) : equity_curve[i][1] = data[i].open_time
    /\ AtMark => Len(equity_curve) = bars_processed
    /\ pc = "done" => Len(equity_curve) = Len(data)
    /\ (pc = "done" /\ Len(data) >= 1) =>
          /\ equity_curve # <<>>
          /\ LastEquity[1] = data[Len(data)].open_time
    /\ StrictlyIncreasing(data) =>
          \A i \in 1..(Len(equity_curve) - 1) :
              equity_curve[i][1] < equity_curve[i + 1][1]

C9_Step ==
    /\ IsPrefixOf(equity_curve, equity_curve')
    /\ IsPrefixOf(trades, trades')
    /\ Len(equity_curve') <= Len(equity_curve) + 1
    /\ Len(trades') <= Len(trades) + 1

C9_EquityCurve == []C9_State /\ [][C9_Step]_vars

\* C9 witness: a finished run over at least two bars of increasing time.
C9_Witness ==
    /\ pc = "done"
    /\ Len(data) >= 2
    /\ StrictlyIncreasing(data)
    /\ Len(equity_curve) = Len(data)

\* C10: over strictly increasing bar timestamps every closed Trade has
\* entry_time < exit_time.
C10_EntryBeforeExit ==
    StrictlyIncreasing(data) =>
        \A k \in 1..Len(trades) : trades[k].entry_time < trades[k].exit_time

\* C10 witness: a closed trade in a run over increasing timestamps.
C10_Witness == StrictlyIncreasing(data) /\ Len(trades) >= 1

\* ------------------------------------------------------------------------
\* CompositeStrategy (core/backtest/strategies/composition/
\* composite_strategy.py) driven by the engine
\* ------------------------------------------------------------------------

\* A regime row of data_with_indicators, as MarketRegimeClassifier writes
\* it: the simplified label and the three states it is mapped from.
RegimeRecord(simplified, trend, volatility, momentum) == [simplified |-> simplified, trend_state |-> trend, volatility_state |-> volatility, momentum_state |-> momentum]

\* The rows the engine's classifier can write.  add_all_indicators makes
\* no adx and no roc column, so detect_trend_state answers neutral and
\* detect_momentum_state answers weak on every bar; the volatility state
\* is low or high, and the simplified label follows from the three.
RegimeRecords ==
    {RegimeRecord("RANGE", "neutral", "low", "weak"),
     RegimeRecord("CHOPPY", "neutral", "high", "weak")}

\* regime_filter arguments: None, or a list of simplified labels.
RegimeFilters == {None, Some(<<"RANGE">>), Some(<<"CHOPPY", "RANGE">>)}

\* sub_regime_filter arguments: None, or a dict component -> allowed values.
SubRegimeFilters == {None, Some([volatility |-> <<"low">>])}

\* The price of every bar of a composite run (the strategy reads its
\* pre-computed series, never the price).
CompositeClose == RInt(4)

\* Candle series with strictly increasing timestamps.
CompositeSeries ==
    {s \in CandleSeries :
        StrictlyIncreasing(s) /\ \A i \in 1..Len(s) : s[i].close = CompositeClose}

\* position_size_pct arguments of a composite run.
CompositePositionSizePcts == {Zero, One}

\* Python truth value of an optional list or dict: None and the empty
\* container are false.
Truthy(opt) == opt # None /\ DOMAIN opt[1] # {}

\* x in list
InList(x, list) == \E k \in DOMAIN list : list[k] = x

\* f'{component}_state'
StateKey(component) == component \o "_state"

\* CompositeStrategy._regime_allowed without the simplified-regime check.
_regime_allowed_SubOnly(ev) ==
    IF ~Truthy(regime_filter) /\ ~Truthy(sub_regime_filter)
    THEN TRUE
    ELSE LET regime_data == ev.metadata
         IN  IF regime_data = None
             THEN TRUE
             ELSE IF /\ Truthy(sub_regime_filter)
                     /\ \E component \in DOMAIN sub_regime_filter[1] :
                           LET value == regime_data[1][StateKey(component)]
                           IN  /\ value # ""
                               /\ ~InList(value, sub_regime_filter[1][component])
             THEN FALSE
             ELSE TRUE

\* CompositeStrategy._regime_allowed
_regime_allowed(ev) ==
    IF ~Truthy(regime_filter) /\ ~Truthy(sub_regime_filter)
    THEN TRUE
    ELSE LET regime_data == ev.metadata
         IN  IF regime_data = None
             THEN TRUE
             ELSE IF /\ Truthy(regime_filter)
                     /\ regime_data[1].simplified # ""
                     /\ ~InList(regime_data[1].simplified, regime_filter[1])
             THEN FALSE
             ELSE IF /\ Truthy(sub_regime_filter)
                     /\ \E component \in DOMAIN sub_regime_filter[1] :
                           LET value == regime_data[1][StateKey(component)]
                           IN  /\ value # ""
                               /\ ~InList(value, sub_regime_filter[1][component])
             THEN FALSE
             ELSE TRUE

\* _data_df.index.get_loc(timestamp) succeeds
InIndex(ts) == \E i \in 1..Len(data) : data[i].open_time = ts

\* _data_df.index.get_loc(timestamp)
get_loc(ts) == CHOOSE i \in 1..Len(data) : data[i].open_time = ts

\* What calculate_signals returns and leaves behind.
Answer(signal, in_position, skipped) == [signal |-> signal, in_position |-> in_position, skipped |-> skipped]

\* CompositeStrategy.calculate_signals taking an entry whatever the
\* long/flat flag says.
calculate_signals_EntryWhileLong(ev) ==
    LET stay == Answer(None, _in_position, _regime_skipped_count)
    IN  IF _entry_signals = None \/ _exit_signals = None THEN stay
        ELSE IF ~InIndex(ev.timestamp) THEN stay
        ELSE LET idx == get_loc(ev.timestamp)
             IN  IF ~_regime_allowed(ev) /\ ~_in_position
                 THEN Answer(None, _in_position, _regime_skipped_count + 1)
                 ELSE IF _entry_signals[1][idx]
                 THEN Answer(Some(SignalEvent(ev.timestamp, ev.symbol, "BUY")),
                             TRUE, _regime_skipped_count)
                 ELSE IF _in_position /\ _exit_signals[1][idx]
                 THEN Answer(Some(SignalEvent(ev.timestamp, ev.symbol, "SELL")),
                             FALSE, _regime_skipped_count)
                 ELSE stay

\* CompositeStrategy.calculate_signals checking the regime before the exit
\* as well as before the entry.
calculate_signals_RegimeGatesExit(ev) ==
    LET stay == Answer(None, _in_position, _regime_skipped_count)
    IN  IF _entry_signals = None \/ _exit_signals = None THEN stay
        ELSE IF ~InIndex(ev.timestamp) THEN stay
        ELSE LET idx == get_loc(ev.timestamp)
             IN  IF ~_regime_allowed(ev)
                 THEN Answer(None, _in_position, _regime_skipped_count + 1)
                 ELSE IF ~_in_position
                 THEN IF _entry_signals[1][idx]
                      THEN Answer(Some(SignalEvent(ev.timestamp, ev.symbol, "BUY")),
                                  TRUE, _regime_skipped_count)
                      ELSE stay
                 ELSE IF _exit_signals[1][idx]
                      THEN Answer(Some(SignalEvent(ev.timestamp, ev.symbol, "SELL")),
                                  FALSE, _regime_skipped_count)
                      ELSE stay

\* CompositeStrategy.calculate_signals counting a disallowed bar only when
\* the entry tree fires on it.
calculate_signals_CountSuppressed(ev) ==
    LET stay == Answer(None, _in_position, _regime_skipped_count)
    IN  IF _entry_signals = None \/ _exit_signals = None THEN stay
        ELSE IF ~InIndex(ev.timestamp) THEN stay
        ELSE LET idx == get_loc(ev.timestamp)
             IN  IF ~_in_position
                 THEN IF ~_regime_allowed(ev)
                      THEN IF _entry_signals[1][idx]
                           THEN Answer(None, _in_position, _regime_skipped_count + 1)
                           ELSE stay
                      ELSE IF _entry_signals[1][idx]
                      THEN Answer(Some(SignalEvent(ev.timestamp, ev.symbol, "BUY")),
                                  TRUE, _regime_skipped_count)
                      ELSE stay
                 ELSE IF _exit_signals[1][idx]
                      THEN Answer(Some(SignalEvent(ev.timestamp, ev.symbol, "SELL")),
                                  FALSE, _regime_skipped_count)
                      ELSE stay

\* CompositeStrategy.calculate_signals: the signal returned, and the
\* long/flat flag and the skip counter it leaves.
calculate_signals(ev) ==
    LET stay == Answer(None, _in_position, _regime_skipped_count)
    IN  IF _entry_signals = None \/ _exit_signals = None THEN stay
        ELSE IF ~InIndex(ev.timestamp) THEN stay
        ELSE LET idx == get_loc(ev.timestamp)
             IN  IF ~_in_position
                 THEN IF ~_regime_allowed(ev)
                      THEN Answer(None, _in_position, _regime_skipped_count + 1)
                      ELSE IF _entry_signals[1][idx]
                      THEN Answer(Some(SignalEvent(ev.timestamp, ev.symbol, "BUY")),
                                  TRUE, _regime_skipped_count)
                      ELSE stay
                 ELSE IF _exit_signals[1][idx]
                      THEN Answer(Some(SignalEvent(ev.timestamp, ev.symbol, "SELL")),
                                  FALSE, _regime_skipped_count)
                      ELSE stay

\* A constructed engine with regime detection on or off, holding a freshly
\* constructed CompositeStrategy; run() has not started.
InitComposite ==
    /\ data \in CompositeSeries
    /\ initial_capital \in InitialCapitals
    /\ commission_rate = Zero
    /\ slippage_rate = Zero
    /\ position_size_pct \in {ClampPositionSize(p) : p \in CompositePositionSizePcts}
    /\ data_with_indicators \in
          {None} \cup {Some(r) : r \in [1..Len(data) -> RegimeRecords]}
    /\ enable_regime_detection = (data_with_indicators # None)
    /\ regime_filter \in RegimeFilters
    /\ sub_regime_filter \in SubRegimeFilters
    /\ _entry_signals = None
    /\ _exit_signals = None
    /\ _in_position = FALSE
    /\ _regime_skipped_count = 0
    /\ NoEvaluation
    /\ NoSerialization
    /\ first_run = None
    /\ NoClassification
    /\ NoCall
    /\ NoBuiltIn
    /\ bars_processed = 0
    /\ signals_generated = 0
    /\ orders_executed = 0
    /\ current_cash = initial_capital
    /\ positions = NoPositions
    /\ trades = <<>>
    /\ equity_curve = <<>>
    /\ fills = <<>>
    /\ pc = "initialize"
    /\ market_event = None
    /\ signal_event = None
    /\ order = None
    /\ fill = None

\* An initialize that also puts the strategy flat.
Initialize_ResetsFlag ==
    /\ pc = "initialize"
    /\ \E entry, exit \in [1..Len(data) -> BOOLEAN] :
          /\ _entry_signals' = Some(entry)
          /\ _exit_signals' = Some(exit)
    /\ _regime_skipped_count' = 0
    /\ _in_position' = FALSE
    /\ pc' = "bar"
    /\ UNCHANGED <<config, offline, regime_filter, sub_regime_filter,
                   bars_processed, signals_generated, orders_executed,
                   portfolio, equity_curve, locals>>

\* run(): strategy.initialize(data).  The entry and exit trees are any
\* trees, so their full-series evaluations are any boolean series over the
\* bars.
Initialize ==
    /\ pc = "initialize"
    /\ \E entry, exit \in [1..Len(data) -> BOOLEAN] :
          /\ _entry_signals' = Some(entry)
          /\ _exit_signals' = Some(exit)
    /\ _regime_skipped_count' = 0
    /\ pc' = "bar"
    /\ UNCHANGED <<config, offline, regime_filter, sub_regime_filter, _in_position,
                   bars_processed, signals_generated, orders_executed,
                   portfolio, equity_curve, locals>>

\* signal_event = _generate_signal(market_event) with the composite
\* strategy's calculate_signals; if signal_event: ...
GenerateSignalComposite ==
    /\ pc = "signal"
    /\ LET a == calculate_signals(market_event[1])
       IN  /\ signal_event' = a.signal
           /\ _in_position' = a.in_position
           /\ _regime_skipped_count' = a.skipped
           /\ signals_generated' =
                 IF a.signal # None /\ a.signal[1].signal_type # "HOLD"
                 THEN signals_generated + 1
                 ELSE signals_generated
           /\ pc' = IF a.signal # None THEN "process" ELSE "record"
    /\ UNCHANGED <<config, offline, regime_filter, sub_regime_filter, _entry_signals,
                   _exit_signals, bars_processed, orders_executed, portfolio,
                   equity_curve, market_event, order, fill>>

NextComposite ==
    \/ Initialize
    \/ CreateMarketEvent
    \/ GenerateSignalComposite
    \/ ProcessSignal
    \/ ExecuteOrder
    \/ UpdateFromFill
    \/ RecordEquity
    \/ Finish

SpecComposite == InitComposite /\ [][NextComposite]_vars

\* ------------------------------------------------------------------------
\* Properties of a composite run
\* ------------------------------------------------------------------------

IsBuy(s) == s # None /\ s[1].signal_type = "BUY"

IsSell(s) == s # None /\ s[1].signal_type = "SELL"

\* The entry / exit tree fires on the bar the loop is at.
EntryFires == _entry_signals[1][bars_processed]

ExitFires == _exit_signals[1][bars_processed]

\* C11: starting flat, a BUY is emitted only while flat and makes the
\* strategy long, a SELL only while long and makes it flat, nothing else
\* moves the flag, so the emitted signals alternate BUY, SELL, BUY, ...;
\* a bar has one signal slot, filled once; while long an entry fire alone
\* gives no signal, while flat an exit fire alone gives no signal and a
\* bar where both fire gives no SELL.
C11_Step ==
    /\ _in_position' # _in_position => pc = "signal"
    /\ signal_event' # signal_event => pc = "signal"
    /\ pc' = "signal" => bars_processed' = bars_processed + 1
    /\ pc = "signal" =>
          /\ bars_processed' = bars_processed
          /\ pc' # "signal"
          /\ signal_event' = None \/ IsBuy(signal_event') \/ IsSell(signal_event')
          /\ IsBuy(signal_event') => ~_in_position /\ _in_position'
          /\ IsSell(signal_event') => _in_position /\ ~_in_position'
          /\ signal_event' = None => _in_position' = _in_position
          /\ (_in_position /\ ~ExitFires) => signal_event' = None
          /\ (~_in_position /\ ~EntryFires) => signal_event' = None
          /\ (~_in_position /\ EntryFires /\ ExitFires) => ~IsSell(signal_event')

C11_Alternation == [](pc = "initialize" => ~_in_position) /\ [][C11_Step]_vars

\* C11 witness: BUY, SELL, BUY over three bars; on the second bar both
\* trees fire while long, on the third both fire while flat.
C11_Witness ==
    /\ Len(fills) = 3
    /\ _in_position
    /\ _entry_signals[1][2] /\ _exit_signals[1][2]
    /\ _entry_signals[1][3] /\ _exit_signals[1][3]

\* The bar the loop is at carries regime metadata.
HasRegime == data_with_indicators # None

\* The regime row of the bar the loop is at.
BarRegime == data_with_indicators[1][bars_processed]

\* The simplified regime of the bar the loop is at is in the filter.
SimplifiedInFilter == InList(BarRegime.simplified, regime_filter[1])

\* Every axis the sub-regime filter names has an allowed value on the bar
\* the loop is at.
AxesAllowed ==
    \A component \in DOMAIN sub_regime_filter[1] :
        InList(BarRegime[StateKey(component)], sub_regime_filter[1][component])

\* C12: a BUY is emitted at a bar only if the entry tree fires there and
\* either the bar carries no regime metadata or its simplified regime is in
\* the filter (when one is set) and every filtered axis has an allowed
\* value (when a sub-regime filter is set).
C12_Step ==
    (pc = "signal" /\ IsBuy(signal_event')) =>
        /\ EntryFires
        /\ \/ ~HasRegime
           \/ /\ Truthy(regime_filter) => SimplifiedInFilter
              /\ Truthy(sub_regime_filter) => AxesAllowed

\* C12, its consequence: with a filter set, every BUY fill lies on a bar
\* whose simplified regime is in the filter whenever the bars carry a
\* regime.
C12_State ==
    (Truthy(regime_filter) /\ HasRegime) =>
        \A k \in 1..Len(fills) :
            fills[k].direction = "BUY" =>
                InList(RegimeRow(fills[k].timestamp).simplified, regime_filter[1])

C12_RegimeFilter == []C12_State /\ [][C12_Step]_vars

\* C12 witness: both filters set, bars with regimes, a bar skipped by the
\* filter while the entry tree fired, then a BUY filled on an allowed bar.
C12_Witness ==
    /\ Truthy(regime_filter) /\ Truthy(sub_regime_filter) /\ HasRegime
    /\ Len(fills) = 1 /\ fills[1].direction = "BUY"
    /\ fills[1].timestamp = 2
    /\ _entry_signals[1][1]
    /\ _regime_skipped_count = 1

\* C13: whenever the strategy is long and the exit tree fires at a bar, it
\* emits SELL at that bar and is flat afterwards, whatever the bar's regime
\* and the filters.
C13_Step ==
    (pc = "signal" /\ _in_position /\ ExitFires) =>
        /\ IsSell(signal_event')
        /\ signal_event'[1].timestamp = timestamp
        /\ ~_in_position'

C13_ExitsNotFiltered == [][C13_Step]_vars

\* C13 witness: a trade closed on a bar whose simplified regime the filter
\* does not allow.
C13_Witness ==
    /\ Truthy(regime_filter) /\ HasRegime
    /\ Len(trades) = 1
    /\ ~InList(RegimeRow(trades[1].exit_time).simplified, regime_filter[1])

\* ------------------------------------------------------------------------
\* Conditions, indicator signals and logic trees
\* (core/backtest/strategies/composition/condition.py, signal.py,
\* logic_tree.py)
\* ------------------------------------------------------------------------

\* Longest indicator series a tree is evaluated on.
MaxLen == 2

\* Floats: a rational, or NaN.  Every comparison with NaN is false and
\* arithmetic on NaN gives NaN.
NaN == <<0, 0>>

isna(x) == x = NaN

FLt(x, y) == ~isna(x) /\ ~isna(y) /\ RLt(x, y)

FLe(x, y) == ~isna(x) /\ ~isna(y) /\ RLe(x, y)

FGt(x, y) == FLt(y, x)

FGe(x, y) == FLe(y, x)

FSub(x, y) == IF isna(x) \/ isna(y) THEN NaN ELSE RSub(x, y)

FAbs(x) == IF isna(x) THEN NaN ELSE RAbs(x)

\* The 1e-6 of the == and != operators.
EqualTolerance == Rat(1, 1000000)

\* class ConditionOperator(Enum): member name -> value
ConditionOperator ==
    [GREATER_THAN |-> ">", LESS_THAN |-> "<", GREATER_EQUAL |-> ">=",
     LESS_EQUAL |-> "<=", EQUAL |-> "==", NOT_EQUAL |-> "!=",
     CROSS_ABOVE |-> "cross_above", CROSS_BELOW |-> "cross_below",
     BETWEEN |-> "between", OUTSIDE |-> "outside"]

\* The members, by name.
ConditionOperators == DOMAIN ConditionOperator

RangeOperators == {"BETWEEN", "OUTSIDE"}

CrossOperators == {"CROSS_ABOVE", "CROSS_BELOW"}

\* Condition.__init__: operator_map, operator string -> member
operator_map ==
    [v \in {ConditionOperator[m] : m \in ConditionOperators} |->
        CHOOSE m \in ConditionOperators : ConditionOperator[m] = v]

\* Condition.__init__ (operator is a member or an operator string,
\* threshold2 is None or Some(x))
Condition(operator, threshold, threshold2) == [operator |-> IF operator \in DOMAIN operator_map THEN operator_map[operator] ELSE operator, threshold |-> threshold, threshold2 |-> threshold2]

\* The thresholds of the conditions that are evaluated.
Threshold == RInt(5)

Threshold2 == RInt(6)

\* One condition per operator; between and outside carry the second
\* threshold.
Conditions ==
    {Condition(ConditionOperator[m], Threshold,
               IF m \in RangeOperators THEN Some(Threshold2) ELSE None) :
        m \in ConditionOperators}

\* Values of an indicator: undefined, below the threshold, the threshold,
\* above it by less than the tolerance, above both thresholds.
IndicatorValues == {NaN, RInt(4), RInt(5), Rat(10000001, 2000000), RInt(7)}

IndicatorSeries == UNION {[1..n -> IndicatorValues] : n \in 0..MaxLen}

\* Condition.evaluate; previous is None or Some(x)
Condition_evaluate(c, current, previous) ==
    IF isna(current) THEN FALSE
    ELSE IF c.operator = "GREATER_THAN" THEN FGt(current, c.threshold)
    ELSE IF c.operator = "LESS_THAN" THEN FLt(current, c.threshold)
    ELSE IF c.operator = "GREATER_EQUAL" THEN FGe(current, c.threshold)
    ELSE IF c.operator = "LESS_EQUAL" THEN FLe(current, c.threshold)
    ELSE IF c.operator = "EQUAL" THEN FLt(FAbs(FSub(current, c.threshold)), EqualTolerance)
    ELSE IF c.operator = "NOT_EQUAL" THEN FGe(FAbs(FSub(current, c.threshold)), EqualTolerance)
    ELSE IF c.operator = "BETWEEN"
    THEN FLe(c.threshold, current) /\ FLe(current, c.threshold2[1])
    ELSE IF c.operator = "OUTSIDE"
    THEN FLt(current, c.threshold) \/ FGt(current, c.threshold2[1])
    ELSE IF c.operator = "CROSS_ABOVE"
    THEN IF previous = None \/ isna(previous[1]) THEN FALSE
         ELSE FLe(previous[1], c.threshold) /\ FLt(c.threshold, current)
    ELSE IF c.operator = "CROSS_BELOW"
    THEN IF previous = None \/ isna(previous[1]) THEN FALSE
         ELSE FGe(previous[1], c.threshold) /\ FGt(c.threshold, current)
    ELSE FALSE

\* series.shift(1)
shift(series) ==
    [k \in DOMAIN series |-> IF k = 1 THEN NaN ELSE series[k - 1]]

\* a & b and a | b on boolean series
SeriesAnd(a, b) == [k \in DOMAIN a |-> a[k] /\ b[k]]

SeriesOr(a, b) == [k \in DOMAIN a |-> a[k] \/ b[k]]

\* pd.Series(False, index=...)
SeriesFalse(series) == [k \in DOMAIN series |-> FALSE]

\* Condition.evaluate_series with != as the negation of ==.
Condition_evaluate_series_NotEqualNegates(c, series) ==
    IF c.operator = "GREATER_THAN" THEN [k \in DOMAIN series |-> FGt(series[k], c.threshold)]
    ELSE IF c.operator = "LESS_THAN" THEN [k \in DOMAIN series |-> FLt(series[k], c.threshold)]
    ELSE IF c.operator = "GREATER_EQUAL" THEN [k \in DOMAIN series |-> FGe(series[k], c.threshold)]
    ELSE IF c.operator = "LESS_EQUAL" THEN [k \in DOMAIN series |-> FLe(series[k], c.threshold)]
    ELSE IF c.operator = "EQUAL"
    THEN [k \in DOMAIN series |-> FLt(FAbs(FSub(series[k], c.threshold)), EqualTolerance)]
    ELSE IF c.operator = "NOT_EQUAL"
    THEN [k \in DOMAIN series |-> ~FLt(FAbs(FSub(series[k], c.threshold)), EqualTolerance)]
    ELSE IF c.operator = "BETWEEN"
    THEN SeriesAnd([k \in DOMAIN series |-> FGe(series[k], c.threshold)],
                   [k \in DOMAIN series |-> FLe(series[k], c.threshold2[1])])
    ELSE IF c.operator = "OUTSIDE"
    THEN SeriesOr([k \in DOMAIN series |-> FLt(series[k], c.threshold)],
                  [k \in DOMAIN series |-> FGt(series[k], c.threshold2[1])])
    ELSE IF c.operator = "CROSS_ABOVE"
    THEN LET prev_series == shift(series)
         IN  SeriesAnd([k \in DOMAIN series |-> FLe(prev_series[k], c.threshold)],
                       [k \in DOMAIN series |-> FGt(series[k], c.threshold)])
    ELSE IF c.operator = "CROSS_BELOW"
    THEN LET prev_series == shift(series)
         IN  SeriesAnd([k \in DOMAIN series |-> FGe(prev_series[k], c.threshold)],
                       [k \in DOMAIN series |-> FLt(series[k], c.threshold)])
    ELSE SeriesFalse(series)

\* Condition.evaluate_series
Condition_evaluate_series(c, series) ==
    IF c.operator = "GREATER_THAN" THEN [k \in DOMAIN series |-> FGt(series[k], c.threshold)]
    ELSE IF c.operator = "LESS_THAN" THEN [k \in DOMAIN series |-> FLt(series[k], c.threshold)]
    ELSE IF c.operator = "GREATER_EQUAL" THEN [k \in DOMAIN series |-> FGe(series[k], c.threshold)]
    ELSE IF c.operator = "LESS_EQUAL" THEN [k \in DOMAIN series |-> FLe(series[k], c.threshold)]
    ELSE IF c.operator = "EQUAL"
    THEN [k \in DOMAIN series |-> FLt(FAbs(FSub(series[k], c.threshold)), EqualTolerance)]
    ELSE IF c.operator = "NOT_EQUAL"
    THEN [k \in DOMAIN series |-> FGe(FAbs(FSub(series[k], c.threshold)), EqualTolerance)]
    ELSE IF c.operator = "BETWEEN"
    THEN SeriesAnd([k \in DOMAIN series |-> FGe(series[k], c.threshold)],
                   [k \in DOMAIN series |-> FLe(series[k], c.threshold2[1])])
    ELSE IF c.operator = "OUTSIDE"
    THEN SeriesOr([k \in DOMAIN series |-> FLt(series[k], c.threshold)],
                  [k \in DOMAIN series |-> FGt(series[k], c.threshold2[1])])
    ELSE IF c.operator = "CROSS_ABOVE"
    THEN LET prev_series == shift(series)
         IN  SeriesAnd([k \in DOMAIN series |-> FLe(prev_series[k], c.threshold)],
                       [k \in DOMAIN series |-> FGt(series[k], c.threshold)])
    ELSE IF c.operator = "CROSS_BELOW"
    THEN LET prev_series == shift(series)
         IN  SeriesAnd([k \in DOMAIN series |-> FGe(prev_series[k], c.threshold)],
                       [k \in DOMAIN series |-> FLt(series[k], c.threshold)])
    ELSE SeriesFalse(series)

\* str.upper() on the indicator names that are used
upper(str) ==
    IF str = "rsi" THEN "RSI" ELSE IF str = "macd" THEN "MACD"
    ELSE IF str = "sma" THEN "SMA" ELSE IF str = "ema" THEN "EMA" ELSE str

\* IndicatorSignal.__init__
IndicatorSignal(name, indicator, parameters, condition, timeframe, indicator_component) == [name |-> name, indicator |-> upper(indicator), parameters |-> parameters, condition |-> condition, timeframe |-> timeframe, indicator_component |-> indicator_component]

\* The signal that tests its indicator with the condition c.
SignalOf(c) ==
    IndicatorSignal(c.operator, "rsi", [period |-> 14], c, "1h", None)

\* IndicatorSignal.calculate_indicator(data): the indicator's series over
\* the data, here any series.
calculate_indicator(sig) == indicator_values[1]

\* series.iloc[i] for an index i of 0 .. len - 1
iloc(series, i) == series[i + 1]

\* IndicatorSignal.evaluate taking iloc[index - 1] as the previous value at
\* index 0 as well, where it is the last value of the series.
IndicatorSignal_evaluate_PreviousWraps(sig, idx) ==
    LET values == calculate_indicator(sig)
        i == IF idx = None THEN Len(values) - 1 ELSE idx[1]
        current == iloc(values, i)
        previous == IF i > 0 THEN Some(iloc(values, i - 1))
                          ELSE Some(iloc(values, Len(values) - 1))
    IN  Condition_evaluate(sig.condition, current, previous)

\* IndicatorSignal.evaluate; idx is None or Some(i)
IndicatorSignal_evaluate(sig, idx) ==
    LET values == calculate_indicator(sig)
        i == IF idx = None THEN Len(values) - 1 ELSE idx[1]
        current == iloc(values, i)
        previous == IF i > 0 THEN Some(iloc(values, i - 1)) ELSE None
    IN  Condition_evaluate(sig.condition, current, previous)

\* IndicatorSignal.evaluate_series
IndicatorSignal_evaluate_series(sig) ==
    Condition_evaluate_series(sig.condition, calculate_indicator(sig))

\* LogicNode.__init__ with a signal: a leaf
Leaf(sig) == [is_leaf |-> TRUE, signal |-> Some(sig), operator |-> None, children |-> <<>>]

\* LogicNode.__init__ with an operator: a branch
Branch(operator, children) == [is_leaf |-> FALSE, signal |-> None, operator |-> Some(operator), children |-> children]

LogicOperators == {"AND", "OR"}

\* Sequences of at most two members of S.
UpToTwo(S) == {<<>>} \cup {<<a>> : a \in S} \cup {<<a, b>> : a, b \in S}

\* The trees that are evaluated: a leaf for every condition, and branches
\* of up to two children, two levels deep, over two of the leaves.
LeafNodes == {Leaf(SignalOf(c)) : c \in Conditions}

InnerLeaves == {n \in LeafNodes : n.signal[1].condition.operator \in {"GREATER_THAN", "CROSS_ABOVE"}}

BranchesOver(S) == {Branch(op, ch) : op \in LogicOperators, ch \in UpToTwo(S)}

LogicNodes == LeafNodes \cup BranchesOver(InnerLeaves \cup BranchesOver(InnerLeaves))

\* LogicNode.evaluate
RECURSIVE LogicNode_evaluate(_, _)
LogicNode_evaluate(node, idx) ==
    IF node.is_leaf THEN IndicatorSignal_evaluate(node.signal[1], idx)
    ELSE IF node.children = <<>> THEN FALSE
    ELSE LET results == [k \in DOMAIN node.children |->
                            LogicNode_evaluate(node.children[k], idx)]
         IN  IF node.operator[1] = "AND" THEN \A k \in DOMAIN results : results[k]
             ELSE IF node.operator[1] = "OR" THEN \E k \in DOMAIN results : results[k]
             ELSE FALSE

\* combined = results[0]; for result in results[1:]: combined = combined & result
RECURSIVE FoldAnd(_, _)
FoldAnd(combined, results) ==
    IF results = <<>> THEN combined
    ELSE FoldAnd(SeriesAnd(combined, Head(results)), Tail(results))

\* combined = results[0]; for result in results[1:]: combined = combined | result
RECURSIVE FoldOr(_, _)
FoldOr(combined, results) ==
    IF results = <<>> THEN combined
    ELSE FoldOr(SeriesOr(combined, Head(results)), Tail(results))

\* LogicNode.evaluate_series
RECURSIVE LogicNode_evaluate_series(_)
LogicNode_evaluate_series(node) ==
    IF node.is_leaf THEN IndicatorSignal_evaluate_series(node.signal[1])
    ELSE IF node.children = <<>> THEN SeriesFalse(indicator_values[1])
    ELSE LET results == [k \in DOMAIN node.children |->
                            LogicNode_evaluate_series(node.children[k])]
         IN  IF node.operator[1] = "AND" THEN FoldAnd(Head(results), Tail(results))
             ELSE IF node.operator[1] = "OR" THEN FoldOr(Head(results), Tail(results))
             ELSE SeriesFalse(indicator_values[1])

\* The engine variables while no engine runs.
NoEngine ==
    /\ data = <<>>
    /\ initial_capital = Zero
    /\ commission_rate = Zero
    /\ slippage_rate = Zero
    /\ position_size_pct = Zero
    /\ enable_regime_detection = FALSE
    /\ data_with_indicators = None
    /\ bars_processed = 0
    /\ signals_generated = 0
    /\ orders_executed = 0
    /\ current_cash = Zero
    /\ positions = NoPositions
    /\ trades = <<>>
    /\ equity_curve = <<>>
    /\ fills = <<>>
    /\ market_event = None
    /\ signal_event = None
    /\ order = None
    /\ fill = None
    /\ first_run = None

backtest == <<config, bars_processed, signals_generated, orders_executed,
              portfolio, equity_curve, locals>>

engine == <<backtest, apart>>

\* A strategy holding the tree entry_logic, over data whose indicator
\* series is indicator_values; nothing is evaluated yet.
InitLogic ==
    /\ NoEngine
    /\ NoSerialization
    /\ NoClassification
    /\ NoCall
    /\ NoBuiltIn
    /\ entry_logic \in {Some(n) : n \in LogicNodes}
    /\ exit_logic = None
    /\ indicator_values \in {Some(v) : v \in IndicatorSeries}
    /\ index = None
    /\ result = None
    /\ regime_filter = None
    /\ sub_regime_filter = None
    /\ _entry_signals = None
    /\ _exit_signals = None
    /\ _in_position = FALSE
    /\ _regime_skipped_count = 0
    /\ pc = "initialize"

\* CompositeStrategy.initialize: the entry tree evaluated over the full
\* series.
EvaluateSeries ==
    /\ pc = "initialize"
    /\ _entry_signals' = Some(LogicNode_evaluate_series(entry_logic[1]))
    /\ _regime_skipped_count' = 0
    /\ pc' = "evaluate"
    /\ UNCHANGED <<engine, evaluation, serialization, regime_filter,
                   sub_regime_filter, _exit_signals, _in_position>>

\* The indices of the series, as evaluate accepts them: 0 .. len - 1, and
\* no index for the last row.
Indices ==
    IF Len(indicator_values[1]) = 0 THEN {}
    ELSE {None} \cup {Some(i) : i \in 0..(Len(indicator_values[1]) - 1)}

\* entry_logic.evaluate(data, index)
Evaluate ==
    /\ pc = "evaluate"
    /\ result = None
    /\ \E idx \in Indices :
          /\ index' = idx
          /\ result' = Some(LogicNode_evaluate(entry_logic[1], idx))
    /\ pc' = "evaluated"
    /\ UNCHANGED <<engine, strategy, serialization, entry_logic, exit_logic,
                   indicator_values>>

NextLogic == EvaluateSeries \/ Evaluate

SpecLogic == InitLogic /\ [][NextLogic]_vars

\* ------------------------------------------------------------------------
\* Properties of conditions and logic trees
\* ------------------------------------------------------------------------

\* The full-series evaluation has been made.
SeriesEvaluated == pc \in {"evaluate", "evaluated"}

\* The position in the series that evaluate(data, index) looked at.
IndexLookedAt == IF index = None THEN Len(indicator_values[1]) - 1 ELSE index[1]

\* Every entry of a boolean series is b.
AllEntries(series, b) == \A k \in DOMAIN series : series[k] = b

\* C14: pointwise and over the full series, a branch AND with no children
\* evaluates to true, a branch OR with no children evaluates to false, and
\* a branch with exactly one child evaluates to that child's value.
C14_TreeIdentities ==
    (SeriesEvaluated /\ ~entry_logic[1].is_leaf) =>
        LET node == entry_logic[1]
        IN  /\ (node.children = <<>> /\ node.operator[1] = "AND") =>
                  /\ AllEntries(_entry_signals[1], TRUE)
                  /\ result # None => result[1] = TRUE
            /\ (node.children = <<>> /\ node.operator[1] = "OR") =>
                  /\ AllEntries(_entry_signals[1], FALSE)
                  /\ result # None => result[1] = FALSE
            /\ Len(node.children) = 1 =>
                  /\ _entry_signals[1] = LogicNode_evaluate_series(node.children[1])
                  /\ result # None =>
                        result[1] = LogicNode_evaluate(node.children[1], index)

\* What does hold of the code: a branch with no children evaluates to
\* false under either operator, and a single child is transparent.
TreeIdentitiesOfTheCode ==
    (SeriesEvaluated /\ ~entry_logic[1].is_leaf) =>
        LET node == entry_logic[1]
        IN  /\ node.children = <<>> =>
                  /\ AllEntries(_entry_signals[1], FALSE)
                  /\ result # None => result[1] = FALSE
            /\ Len(node.children) = 1 =>
                  /\ _entry_signals[1] = LogicNode_evaluate_series(node.children[1])
                  /\ result # None =>
                        result[1] = LogicNode_evaluate(node.children[1], index)

\* The condition of the leaf under evaluation.
LeafCondition == entry_logic[1].signal[1].condition

\* The predicate of a crossover has no defined previous value at position k
\* (1-based) of the series.
NoPrevious(k) ==
    /\ LeafCondition.operator \in CrossOperators
    /\ (k = 1 \/ isna(indicator_values[1][k - 1]))

\* C15: for each of the ten operators an undefined current value makes the
\* predicate false, and for cross_above / cross_below an undefined or
\* absent previous value makes it false, in evaluate and at every index of
\* evaluate_series, index 0 included.
C15_UndefinedIsFalse ==
    (SeriesEvaluated /\ entry_logic[1].is_leaf) =>
        /\ \A k \in DOMAIN indicator_values[1] :
              (isna(indicator_values[1][k]) \/ NoPrevious(k)) =>
                  _entry_signals[1][k] = FALSE
        /\ result # None =>
              LET k == IndexLookedAt + 1
              IN  (isna(indicator_values[1][k]) \/ NoPrevious(k)) =>
                      result[1] = FALSE

\* C15 witness: != evaluated at index 1 on an undefined value that follows
\* a defined one.
C15_Witness ==
    /\ pc = "evaluated"
    /\ entry_logic[1].is_leaf
    /\ LeafCondition.operator = "NOT_EQUAL"
    /\ indicator_values[1] = <<RInt(4), NaN>>
    /\ index = Some(1)
    /\ result = Some(FALSE)

\* C16: for every tree, series and index, evaluate(data, index) equals
\* evaluate_series(data) at that index, so the pre-computed series the
\* strategy steps over holds, bar by bar, the value the tree evaluates to.
C16_StepwiseEqualsBatch ==
    SeriesEvaluated =>
        /\ \A i \in 0..(Len(indicator_values[1]) - 1) :
              LogicNode_evaluate(entry_logic[1], Some(i)) = iloc(_entry_signals[1], i)
        /\ result # None => result[1] = iloc(_entry_signals[1], IndexLookedAt)

\* C16 witness: an AND of a comparison and a crossover, true at index 1 and
\* false at index 0.
C16_Witness ==
    /\ pc = "evaluated"
    /\ ~entry_logic[1].is_leaf
    /\ entry_logic[1].operator = Some("AND")
    /\ Len(entry_logic[1].children) = 2
    /\ entry_logic[1].children[1].is_leaf
    /\ entry_logic[1].children[2].is_leaf
    /\ entry_logic[1].children[2].signal[1].condition.operator = "CROSS_ABOVE"
    /\ index = Some(1)
    /\ result = Some(TRUE)
    /\ _entry_signals[1] = <<FALSE, TRUE>>

\* ------------------------------------------------------------------------
\* Serialization: to_dict / from_dict of IndicatorSignal, LogicNode,
\* LogicTree and CompositeStrategy
\* ------------------------------------------------------------------------

\* A dict is a function on its keys.  dict.get(key, default)
get(dict, key, default) == IF key \in DOMAIN dict THEN dict[key] ELSE default

\* class LogicOperator(Enum): member name -> value
LogicOperator == [AND |-> "AND", OR |-> "OR"]

\* IndicatorSignal.to_dict
IndicatorSignal_to_dict(sig) ==
    [name |-> sig.name,
     indicator |-> sig.indicator,
     parameters |-> sig.parameters,
     condition |-> [operator |-> ConditionOperator[sig.condition.operator],
                    threshold |-> sig.condition.threshold,
                    threshold2 |-> sig.condition.threshold2],
     timeframe |-> sig.timeframe,
     indicator_component |-> sig.indicator_component]

\* IndicatorSignal.from_dict
IndicatorSignal_from_dict(dict) ==
    LET condition == Condition(dict.condition.operator,
                               dict.condition.threshold,
                               get(dict.condition, "threshold2", None))
    IN  IndicatorSignal(dict.name, dict.indicator, dict.parameters, condition,
                        get(dict, "timeframe", "1h"),
                        get(dict, "indicator_component", None))

\* LogicNode.to_dict
RECURSIVE LogicNode_to_dict(_)
LogicNode_to_dict(node) ==
    IF node.is_leaf
    THEN [type |-> "leaf", signal |-> IndicatorSignal_to_dict(node.signal[1])]
    ELSE [type |-> "branch",
          operator |-> LogicOperator[node.operator[1]],
          children |-> [k \in DOMAIN node.children |->
                           LogicNode_to_dict(node.children[k])]]

\* LogicNode.from_dict
RECURSIVE LogicNode_from_dict(_)
LogicNode_from_dict(dict) ==
    IF dict.type = "leaf"
    THEN Leaf(IndicatorSignal_from_dict(dict.signal))
    ELSE LET operator == CHOOSE m \in DOMAIN LogicOperator : m = dict.operator
             children == [k \in DOMAIN dict.children |->
                             LogicNode_from_dict(dict.children[k])]
         IN  Branch(operator, children)

\* LogicTree.__init__
LogicTree(root) == [root |-> root]

\* LogicTree.to_dict
LogicTree_to_dict(tree) == LogicNode_to_dict(tree.root)

\* LogicTree.from_dict
LogicTree_from_dict(dict) == LogicTree(LogicNode_from_dict(dict))

\* raise ValueError(...)
ValueError == "ValueError"

\* Valid regime values for validation
VALID_SIMPLIFIED_REGIMES == <<"TREND_UP", "TREND_DOWN", "RANGE", "CHOPPY", "NEUTRAL">>

VALID_TREND_STATES == <<"uptrend", "downtrend", "neutral">>

VALID_VOLATILITY_STATES == <<"low", "high">>

VALID_MOMENTUM_STATES == <<"bullish", "bearish", "weak">>

\* valid_components of _validate_regime_filters
valid_components == [trend |-> VALID_TREND_STATES, volatility |-> VALID_VOLATILITY_STATES, momentum |-> VALID_MOMENTUM_STATES]

\* The validation that accepts any value of a known component.
_validate_regime_filters_AnyValue(filter, sub_filter) ==
    IF Truthy(filter) /\ \E k \in DOMAIN filter[1] : ~InList(filter[1][k], VALID_SIMPLIFIED_REGIMES)
    THEN <<ValueError>>
    ELSE IF Truthy(sub_filter)
            /\ \E component \in DOMAIN sub_filter[1] : component \notin DOMAIN valid_components
    THEN <<ValueError>>
    ELSE None

\* CompositeStrategy._validate_regime_filters: None, or the error raised
\* (a one-element tuple).  Every raise is a ValueError, so the order of
\* the loops does not show in the outcome.
_validate_regime_filters(filter, sub_filter) ==
    IF Truthy(filter) /\ \E k \in DOMAIN filter[1] : ~InList(filter[1][k], VALID_SIMPLIFIED_REGIMES)
    THEN <<ValueError>>
    ELSE IF Truthy(sub_filter)
            /\ \E component \in DOMAIN sub_filter[1] :
                  \/ component \notin DOMAIN valid_components
                  \/ \E k \in DOMAIN sub_filter[1][component] :
                        ~InList(sub_filter[1][component][k], valid_components[component])
    THEN <<ValueError>>
    ELSE None

\* CompositeStrategy.__init__: the constructor arguments it stores, or the
\* error of the validation, which leaves no object.
CompositeStrategy(name, entry, exit, description, filter, sub_filter) ==
    IF _validate_regime_filters(filter, sub_filter) # None
    THEN [raised |-> _validate_regime_filters(filter, sub_filter)[1]]
    ELSE [name |-> name, entry_logic |-> entry, exit_logic |-> exit, description |-> description, regime_filter |-> filter, sub_regime_filter |-> sub_filter]

\* CompositeStrategy.to_dict
CompositeStrategy_to_dict(strat) ==
    [type |-> "CompositeStrategy",
     name |-> strat.name,
     description |-> strat.description,
     entry_logic |-> LogicTree_to_dict(strat.entry_logic),
     exit_logic |-> LogicTree_to_dict(strat.exit_logic)]
    @@ (IF Truthy(strat.regime_filter)
        THEN [regime_filter |-> strat.regime_filter] ELSE <<>>)
    @@ (IF Truthy(strat.sub_regime_filter)
        THEN [sub_regime_filter |-> strat.sub_regime_filter] ELSE <<>>)

\* CompositeStrategy.from_dict
CompositeStrategy_from_dict(dict) ==
    LET entry == LogicTree_from_dict(dict.entry_logic)
        exit == LogicTree_from_dict(dict.exit_logic)
    IN  CompositeStrategy(dict.name, entry, exit,
                          get(dict, "description", ""),
                          get(dict, "regime_filter", None),
                          get(dict, "sub_regime_filter", None))

\* The class of an object, read off its attributes.
IsIndicatorSignal(x) == "indicator" \in DOMAIN x

IsLogicTree(x) == "root" \in DOMAIN x

IsCompositeStrategy(x) == "entry_logic" \in DOMAIN x

\* x.to_dict() and type(x).from_dict(dict)
to_dict(x) ==
    IF IsIndicatorSignal(x) THEN IndicatorSignal_to_dict(x)
    ELSE IF IsLogicTree(x) THEN LogicTree_to_dict(x)
    ELSE CompositeStrategy_to_dict(x)

from_dict(x, dict) ==
    IF IsIndicatorSignal(x) THEN IndicatorSignal_from_dict(dict)
    ELSE IF IsLogicTree(x) THEN LogicTree_from_dict(dict)
    ELSE CompositeStrategy_from_dict(dict)

\* The signals that are serialized: every operator, with and without a
\* second threshold where it is optional, on two indicators, two
\* timeframes, with and without a component.
SerializedConditions ==
    Conditions \cup
    {Condition(ConditionOperator[m], Threshold, Some(Threshold2)) :
        m \in ConditionOperators}

SerializedSignals ==
    {IndicatorSignal("s", ind, [period |-> 14], c, tf, comp) :
        ind \in {"rsi", "MACD"}, c \in SerializedConditions,
        tf \in {"1h", "4h"}, comp \in {None, Some("histogram")}}

\* The trees that are serialized.
SerializedTrees == {LogicTree(n) : n \in LogicNodes}

\* The strategies that are serialized: filters absent, empty and set.
StrategyTrees ==
    {LogicTree(n) : n \in InnerLeaves \cup BranchesOver({})}

SerializedStrategies ==
    {CompositeStrategy("strategy", entry, exit, description, filter, sub_filter) :
        entry \in StrategyTrees, exit \in StrategyTrees,
        description \in {"", "about"},
        filter \in RegimeFilters \cup {Some(<<>>)},
        sub_filter \in SubRegimeFilters \cup {Some(<<>>)}}

\* An object is constructed; nothing is serialized yet.
InitSerial ==
    /\ NoEngine
    /\ NoEvaluation
    /\ NoClassification
    /\ NoCall
    /\ NoBuiltIn
    /\ subject \in {Some(x) : x \in SerializedSignals \cup SerializedTrees
                                      \cup SerializedStrategies}
    /\ as_dict = None
    /\ restored = None
    /\ regime_filter = None
    /\ sub_regime_filter = None
    /\ _entry_signals = None
    /\ _exit_signals = None
    /\ _in_position = FALSE
    /\ _regime_skipped_count = 0
    /\ pc = "to_dict"

\* d = x.to_dict()
ToDict ==
    /\ pc = "to_dict"
    /\ as_dict' = Some(to_dict(subject[1]))
    /\ pc' = "from_dict"
    /\ UNCHANGED <<engine, strategy, evaluation, subject, restored>>

\* y = type(x).from_dict(d)
FromDict ==
    /\ pc = "from_dict"
    /\ restored' = Some(from_dict(subject[1], as_dict[1]))
    /\ pc' = "restored"
    /\ UNCHANGED <<engine, strategy, evaluation, subject, as_dict>>

NextSerial == ToDict \/ FromDict

SpecSerial == InitSerial /\ [][NextSerial]_vars

\* C17: for every LogicTree, IndicatorSignal and CompositeStrategy x,
\* from_dict(to_dict(x)) equals x field by field, an empty filter list
\* included.
C17_RoundTrip == pc = "restored" => restored = subject

\* What does hold of the code: signals and trees come back equal, and a
\* strategy comes back equal in every field but an empty regime_filter or
\* sub_regime_filter, which comes back as None.
RoundTripOfTheCode ==
    pc = "restored" =>
        IF IsCompositeStrategy(subject[1])
        THEN /\ \A f \in {"name", "entry_logic", "exit_logic", "description"} :
                    restored[1][f] = subject[1][f]
             /\ \A f \in {"regime_filter", "sub_regime_filter"} :
                    restored[1][f] =
                        IF Truthy(subject[1][f]) THEN subject[1][f] ELSE None
        ELSE restored = subject

\* ------------------------------------------------------------------------
\* Indicator pipeline (core/indicators/technical.py)
\* ------------------------------------------------------------------------

FAdd(x, y) == IF isna(x) \/ isna(y) THEN NaN ELSE RAdd(x, y)

FMul(x, y) == IF isna(x) \/ isna(y) THEN NaN ELSE RMul(x, y)

\* max(axis=1) over a row of floats: NaN entries are skipped.
FMax(x, y) == IF isna(x) THEN y ELSE IF isna(y) THEN x ELSE RMax(x, y)

\* A column with every row computed: the function as a sequence.
Rows(column) == column \o <<>>

\* The columns of the candle frame.  A model candle carries its close only:
\* its high and its low are its close.
Column_close(df) == Rows([k \in DOMAIN df |-> df[k].close])

Column_high(df) == Rows([k \in DOMAIN df |-> df[k].close])

Column_low(df) == Rows([k \in DOMAIN df |-> df[k].close])

\* series[from] + ... + series[to]
RECURSIVE SumFrom(_, _, _)
SumFrom(series, from, to) ==
    IF from > to THEN Zero
    ELSE IF from = to THEN series[from]
    ELSE RAdd(SumFrom(series, from, (from + to) \div 2),
              SumFrom(series, (from + to) \div 2 + 1, to))

\* Row k of series.rolling(window) has its window full of defined values.
WindowFilled(series, window, k) ==
    k >= window /\ \A j \in (k - window + 1)..k : ~isna(series[j])

\* series.rolling(window).mean() with the window reaching one row past the
\* current one.
rolling_mean_Ahead(series, window) ==
    Rows([k \in DOMAIN series |->
            IF k + 1 \in DOMAIN series /\ WindowFilled(series, window, k + 1)
            THEN RDiv(SumFrom(series, k + 2 - window, k + 1), RInt(window))
            ELSE NaN])

\* series.rolling(window).mean(): the mean of the last `window` rows, the
\* current one included; undefined while the window is not full.
rolling_mean(series, window) ==
    Rows([k \in DOMAIN series |->
            IF WindowFilled(series, window, k)
            THEN RDiv(SumFrom(series, k - window + 1, k), RInt(window))
            ELSE NaN])

\* Square roots are taken to this many steps per unit.
SqrtScale == 100

\* The largest r with r * r <= n.
ISqrt(n) == CHOOSE r \in 0..n : r * r <= n /\ (r + 1) * (r + 1) > n

\* The square root of a rational that is not negative, rounded down to a
\* multiple of 1 / SqrtScale.
Sqrt(x) == Rat(ISqrt((x[1] * SqrtScale * SqrtScale) \div x[2]), SqrtScale)

\* (series[from] - mean)^2 + ... + (series[to] - mean)^2
RECURSIVE SumSquaresFrom(_, _, _, _)
SumSquaresFrom(series, mean, from, to) ==
    IF from > to THEN Zero
    ELSE IF from = to
    THEN RMul(RSub(series[from], mean), RSub(series[from], mean))
    ELSE RAdd(SumSquaresFrom(series, mean, from, (from + to) \div 2),
              SumSquaresFrom(series, mean, (from + to) \div 2 + 1, to))

\* series.rolling(window).std(): the sample standard deviation of the last
\* `window` rows, undefined for a window of one row.
rolling_std(series, window) ==
    Rows([k \in DOMAIN series |->
            IF window > 1 /\ WindowFilled(series, window, k)
            THEN LET average == RDiv(SumFrom(series, k - window + 1, k), RInt(window))
                 IN  Sqrt(RDiv(SumSquaresFrom(series, average, k - window + 1, k),
                               RInt(window - 1)))
            ELSE NaN])

\* TechnicalIndicators.sma
sma(series, period) == rolling_mean(series, period)

\* data.diff(): the change from the row before, undefined on the first row
diff(series) == Rows([k \in DOMAIN series |-> IF k = 1 THEN NaN ELSE FSub(series[k], series[k - 1])])

\* avg_gain / avg_loss and 100 - (100 / (1 + rs)) on floats: a gain over no
\* loss is inf and gives 100, nothing over nothing is NaN.
RsiOf(avg_gain, avg_loss) ==
    IF isna(avg_gain) \/ isna(avg_loss) THEN NaN
    ELSE IF avg_loss = Zero
    THEN IF avg_gain = Zero THEN NaN ELSE RInt(100)
    ELSE RSub(RInt(100), RDiv(RInt(100), RAdd(One, RDiv(avg_gain, avg_loss))))

\* TechnicalIndicators.rsi.  delta.where(delta > 0, 0) puts 0 wherever the
\* test is false, the undefined first change included.
TechnicalIndicators_rsi(series, period) ==
    LET delta == diff(series)
        gain == Rows([k \in DOMAIN series |-> IF FGt(delta[k], Zero) THEN delta[k] ELSE Zero])
        loss == Rows([k \in DOMAIN series |-> IF FLt(delta[k], Zero) THEN RSub(Zero, delta[k]) ELSE Zero])
        avg_gain == rolling_mean(gain, period)
        avg_loss == rolling_mean(loss, period)
    IN  Rows([k \in DOMAIN series |-> RsiOf(avg_gain[k], avg_loss[k])])

\* TechnicalIndicators.bollinger_bands
bollinger_bands(series, period, std_dev) ==
    LET middle_band == sma(series, period)
        std == rolling_std(series, period)
    IN  [upper |-> Rows([k \in DOMAIN series |->
                            FAdd(middle_band[k], FMul(std[k], std_dev))]),
         middle |-> middle_band,
         lower |-> Rows([k \in DOMAIN series |->
                            FSub(middle_band[k], FMul(std[k], std_dev))])]

\* TechnicalIndicators.atr
atr(high, low, closes, period) ==
    LET previous == Rows(shift(closes))
        tr1 == [k \in DOMAIN closes |-> FSub(high[k], low[k])]
        tr2 == [k \in DOMAIN closes |-> FAbs(FSub(high[k], previous[k]))]
        tr3 == [k \in DOMAIN closes |-> FAbs(FSub(low[k], previous[k]))]
        tr == Rows([k \in DOMAIN closes |-> FMax(FMax(tr1[k], tr2[k]), tr3[k])])
    IN  rolling_mean(tr, period)

\* The default periods of bollinger_bands and atr, and the default std_dev.
BollingerPeriod == 20

BollingerStdDev == RInt(2)

AtrPeriod == 14

\* add_all_indicators: the columns the regime classifier finds and reads
\* before it answers (there is no adx and no roc column).
add_all_indicators(df) ==
    LET closes == Column_close(df)
        bands == bollinger_bands(closes, BollingerPeriod, BollingerStdDev)
        ranges == atr(Column_high(df), Column_low(df), closes, AtrPeriod)
    IN  Rows([k \in DOMAIN df |->
                [close |-> closes[k],
                 bb_upper |-> bands.upper[k],
                 bb_middle |-> bands.middle[k],
                 bb_lower |-> bands.lower[k],
                 atr |-> ranges[k]]])

\* ------------------------------------------------------------------------
\* Regime classifier (core/indicators/regime.py)
\* ------------------------------------------------------------------------

\* class RegimeConfig: the defaults
RegimeConfig ==
    [adx_trending_threshold |-> RInt(25),
     adx_sideways_threshold |-> RInt(20),
     adaptive_window |-> 100,
     vol_low_percentile |-> 30,
     vol_high_percentile |-> 70,
     rsi_bullish_threshold |-> RInt(55),
     rsi_bearish_threshold |-> RInt(45),
     momentum_score_threshold |-> 2]

\* AdaptiveThresholds.__init__
AdaptiveThresholds(window) == [window |-> window, atr_buffer |-> <<>>, boll_width_buffer |-> <<>>]

\* An update that, when full, drops the sample that has just arrived.
AdaptiveThresholds_update_EvictNewest(self, atr_normalized, boll_width) ==
    LET atr_buffer == Append(self.atr_buffer, atr_normalized)
        boll_width_buffer == Append(self.boll_width_buffer, boll_width)
    IN  IF Len(atr_buffer) > self.window
        THEN self
        ELSE [self EXCEPT !.atr_buffer = atr_buffer,
                          !.boll_width_buffer = boll_width_buffer]

\* AdaptiveThresholds.update
AdaptiveThresholds_update(self, atr_normalized, boll_width) ==
    LET atr_buffer == Append(self.atr_buffer, atr_normalized)
        boll_width_buffer == Append(self.boll_width_buffer, boll_width)
    IN  IF Len(atr_buffer) > self.window
        THEN [self EXCEPT !.atr_buffer = Tail(atr_buffer),
                          !.boll_width_buffer = Tail(boll_width_buffer)]
        ELSE [self EXCEPT !.atr_buffer = atr_buffer,
                          !.boll_width_buffer = boll_width_buffer]

\* np.percentile(a, q): linear interpolation between the two closest ranks
percentile(a, q) ==
    LET sorted == SortSeq(a, RLt)
        below == (q * (Len(a) - 1)) \div 100
        fraction == RSub(Rat(q * (Len(a) - 1), 100), RInt(below))
    IN  IF below + 2 > Len(a) THEN sorted[Len(a)]
        ELSE RAdd(sorted[below + 1],
                  RMul(fraction, RSub(sorted[below + 2], sorted[below + 1])))

\* min(a, b) of integers
IMin(a, b) == IF a < b THEN a ELSE b

\* The samples get_thresholds wants before it leaves its defaults:
\* min(window // 2, 30)
SufficientData(self) == IMin(self.window \div 2, 30)

\* AdaptiveThresholds.get_thresholds
get_thresholds(self, cfg) ==
    IF Len(self.atr_buffer) < SufficientData(self)
    THEN [atr_p30 |-> Rat(5, 1000), atr_p70 |-> Rat(15, 1000),
          boll_p30 |-> Rat(2, 100), boll_p70 |-> Rat(6, 100)]
    ELSE [atr_p30 |-> percentile(self.atr_buffer, cfg.vol_low_percentile),
          atr_p70 |-> percentile(self.atr_buffer, cfg.vol_high_percentile),
          boll_p30 |-> percentile(self.boll_width_buffer, cfg.vol_low_percentile),
          boll_p70 |-> percentile(self.boll_width_buffer, cfg.vol_high_percentile)]

\* row.get(key): a column the frame does not have reads as missing
row_get(row, key) == IF key \in DOMAIN row THEN row[key] ELSE NaN

\* MarketRegimeClassifier.detect_trend_state
detect_trend_state(row) ==
    LET adx == row_get(row, "adx")
        price == row_get(row, "close")
        sma_50 == row_get(row, "sma_50")
        sma_200 == row_get(row, "sma_200")
    IN  IF isna(adx) \/ isna(price) \/ isna(sma_50) THEN "neutral"
        ELSE IF RLt(adx, RegimeConfig.adx_sideways_threshold) THEN "neutral"
        ELSE IF ~RLt(adx, RegimeConfig.adx_trending_threshold)
        THEN IF ~isna(sma_200)
             THEN IF RGt(price, sma_50) /\ RGt(sma_50, sma_200) THEN "uptrend"
                  ELSE IF RLt(price, sma_50) /\ RLt(sma_50, sma_200) THEN "downtrend"
                  ELSE "neutral"
             ELSE IF RGt(price, sma_50) THEN "uptrend"
                  ELSE IF RLt(price, sma_50) THEN "downtrend"
                  ELSE "neutral"
        ELSE "neutral"

\* What detect_volatility_state returns and leaves behind.
Volatility(state, adaptive_thresholds) == [volatility_state |-> state, adaptive_thresholds |-> adaptive_thresholds]

\* MarketRegimeClassifier.detect_volatility_state; self is the classifier's
\* AdaptiveThresholds, thresholds what get_thresholds gave before the call
detect_volatility_state(self, row, thresholds) ==
    LET range == row_get(row, "atr")
        price == row_get(row, "close")
        bb_upper == row_get(row, "bb_upper")
        bb_middle == row_get(row, "bb_middle")
        bb_lower == row_get(row, "bb_lower")
    IN  IF isna(range) \/ isna(price) \/ price = Zero THEN Volatility("low", self)
        ELSE IF isna(bb_upper) \/ isna(bb_middle) \/ isna(bb_lower)
        THEN Volatility("low", self)
        ELSE LET normalized_atr == RDiv(range, price)
                 boll_width == IF bb_middle = Zero THEN Zero
                               ELSE RDiv(RSub(bb_upper, bb_lower), bb_middle)
                 updated == AdaptiveThresholds_update(self, normalized_atr, boll_width)
             IN  IF RGt(normalized_atr, thresholds.atr_p70)
                       \/ RGt(boll_width, thresholds.boll_p70)
                 THEN Volatility("high", updated)
                 ELSE IF RLt(normalized_atr, thresholds.atr_p30)
                            /\ RLt(boll_width, thresholds.boll_p30)
                 THEN Volatility("low", updated)
                 ELSE Volatility("low", updated)

\* A momentum score in which an RSI at its threshold already counts.
detect_momentum_state_RsiInclusive(row) ==
    LET roc == row_get(row, "roc")
        macd_hist == row_get(row, "macd_histogram")
        rsi == row_get(row, "rsi")
    IN  IF isna(roc) \/ isna(macd_hist) \/ isna(rsi) THEN "weak"
        ELSE LET bullish_score ==
                     (IF RGt(roc, Zero) THEN 1 ELSE 0)
                     + (IF RGt(macd_hist, Zero) THEN 1 ELSE 0)
                     + (IF ~RLt(rsi, RegimeConfig.rsi_bullish_threshold) THEN 1 ELSE 0)
                 bearish_score ==
                     (IF RLt(roc, Zero) THEN 1 ELSE 0)
                     + (IF RLt(macd_hist, Zero) THEN 1 ELSE 0)
                     + (IF ~RGt(rsi, RegimeConfig.rsi_bearish_threshold) THEN 1 ELSE 0)
             IN  IF bullish_score >= RegimeConfig.momentum_score_threshold THEN "bullish"
                 ELSE IF bearish_score >= RegimeConfig.momentum_score_threshold
                 THEN "bearish"
                 ELSE "weak"

\* MarketRegimeClassifier.detect_momentum_state
detect_momentum_state(row) ==
    LET roc == row_get(row, "roc")
        macd_hist == row_get(row, "macd_histogram")
        rsi == row_get(row, "rsi")
    IN  IF isna(roc) \/ isna(macd_hist) \/ isna(rsi) THEN "weak"
        ELSE LET bullish_score ==
                     (IF RGt(roc, Zero) THEN 1 ELSE 0)
                     + (IF RGt(macd_hist, Zero) THEN 1 ELSE 0)
                     + (IF RGt(rsi, RegimeConfig.rsi_bullish_threshold) THEN 1 ELSE 0)
                 bearish_score ==
                     (IF RLt(roc, Zero) THEN 1 ELSE 0)
                     + (IF RLt(macd_hist, Zero) THEN 1 ELSE 0)
                     + (IF RLt(rsi, RegimeConfig.rsi_bearish_threshold) THEN 1 ELSE 0)
             IN  IF bullish_score >= RegimeConfig.momentum_score_threshold THEN "bullish"
                 ELSE IF bearish_score >= RegimeConfig.momentum_score_threshold
                 THEN "bearish"
                 ELSE "weak"

\* A mapping that calls every volatile bar without a trend CHOPPY,
\* whatever its momentum.
map_to_simplified_regime_AnyMomentum(trend, volatility, momentum) ==
    IF trend = "uptrend" /\ momentum = "bullish" THEN "TREND_UP"
    ELSE IF trend = "downtrend" /\ momentum = "bearish" THEN "TREND_DOWN"
    ELSE IF volatility = "high" /\ trend = "neutral" THEN "CHOPPY"
    ELSE IF trend = "neutral" /\ volatility = "low" THEN "RANGE"
    ELSE "NEUTRAL"

\* MarketRegimeClassifier.map_to_simplified_regime
map_to_simplified_regime(trend, volatility, momentum) ==
    IF trend = "uptrend" /\ momentum = "bullish" THEN "TREND_UP"
    ELSE IF trend = "downtrend" /\ momentum = "bearish" THEN "TREND_DOWN"
    ELSE IF volatility = "high" /\ momentum = "weak" /\ trend = "neutral" THEN "CHOPPY"
    ELSE IF trend = "neutral" /\ volatility = "low" THEN "RANGE"
    ELSE "NEUTRAL"

\* MarketRegimeClassifier.calculate_confidence
calculate_confidence(row, trend, momentum) ==
    LET adx == IF "adx" \in DOMAIN row THEN row["adx"] ELSE Zero
        rsi == row_get(row, "rsi")
        macd_hist == row_get(row, "macd_histogram")
        base == Rat(5, 10)
        after_adx ==
            IF ~isna(adx)
            THEN IF RGt(adx, RInt(40)) THEN RAdd(base, Rat(3, 10))
                 ELSE IF RGt(adx, RegimeConfig.adx_trending_threshold)
                 THEN RAdd(base, Rat(15, 100))
                 ELSE IF RLt(adx, RegimeConfig.adx_sideways_threshold)
                 THEN RSub(base, Rat(1, 10))
                 ELSE base
            ELSE base
        after_alignment ==
            IF trend = "uptrend" /\ momentum = "bullish" THEN RAdd(after_adx, Rat(2, 10))
            ELSE IF trend = "downtrend" /\ momentum = "bearish" THEN RAdd(after_adx, Rat(2, 10))
            ELSE IF trend # "neutral" /\ momentum = "weak" THEN RSub(after_adx, Rat(1, 10))
            ELSE after_adx
        missing_count ==
            (IF isna(rsi) THEN 1 ELSE 0) + (IF isna(macd_hist) THEN 1 ELSE 0)
            + (IF isna(adx) THEN 1 ELSE 0)
        confidence == RSub(after_alignment, RMul(RInt(missing_count), Rat(1, 10)))
    IN  RMax(Zero, RMin(One, confidence))

\* MarketRegimeClassifier.detect_regime: the regime row of one bar (label
\* and the three states), and the adaptive thresholds after it; self is
\* the classifier's AdaptiveThresholds.
detect_regime(self, row) ==
    LET thresholds == get_thresholds(self, RegimeConfig)
        trend == detect_trend_state(row)
        volatility == detect_volatility_state(self, row, thresholds)
        momentum == detect_momentum_state(row)
    IN  [regime |-> RegimeRecord(map_to_simplified_regime(trend, volatility.volatility_state, momentum),
                                 trend, volatility.volatility_state, momentum),
         adaptive_thresholds |-> volatility.adaptive_thresholds]

\* A loop in which every row meets the classifier as it was before the
\* first row.
RECURSIVE ClassifyFrom_Stale(_, _, _)
ClassifyFrom_Stale(df, k, self) ==
    IF k > Len(df) THEN <<>>
    ELSE <<detect_regime(self, df[k]).regime>> \o ClassifyFrom_Stale(df, k + 1, self)

\* for idx, row in result.iterrows(): regimes.append(self.detect_regime(row))
RECURSIVE ClassifyFrom(_, _, _)
ClassifyFrom(df, k, self) ==
    IF k > Len(df) THEN <<>>
    ELSE LET detected == detect_regime(self, df[k])
         IN  <<detected.regime>> \o ClassifyFrom(df, k + 1, detected.adaptive_thresholds)

\* The classifier's adaptive thresholds when that loop has ended.
RECURSIVE ThresholdsFrom(_, _, _)
ThresholdsFrom(df, k, self) ==
    IF k > Len(df) THEN self
    ELSE ThresholdsFrom(df, k + 1, detect_regime(self, df[k]).adaptive_thresholds)

\* MarketRegimeClassifier().classify_dataframe: the regime columns
classify_dataframe(df) ==
    ClassifyFrom(df, 1, AdaptiveThresholds(RegimeConfig.adaptive_window))

\* BacktestEngine._prepare_regime_data
_prepare_regime_data(df) == classify_dataframe(add_all_indicators(df))

\* ------------------------------------------------------------------------
\* Construction of an engine (BacktestEngine.__init__), and a composite
\* run whose signals are computed from the candles
\* ------------------------------------------------------------------------

\* IndicatorSignal._calculate_on_dataframe: the branches of the indicators
\* that are computed from the close.
_calculate_on_dataframe(sig, df) ==
    IF sig.indicator = "SMA"
    THEN sma(Column_close(df), get(sig.parameters, "period", 20))
    ELSE IF sig.indicator = "BB"
    THEN LET bands == bollinger_bands(Column_close(df),
                                      get(sig.parameters, "period", 20),
                                      get(sig.parameters, "num_std", RInt(2)))
             component == IF sig.indicator_component = None THEN "middle"
                          ELSE sig.indicator_component[1]
         IN  IF component \in {"upper", "middle", "lower"} THEN bands[component]
             ELSE ValueError
    ELSE IF sig.indicator = "ATR"
    THEN atr(Column_high(df), Column_low(df), Column_close(df),
             get(sig.parameters, "period", 14))
    ELSE ValueError

\* initial_capital arguments of a constructor call.
ConstructorCapitals == {RInt(-100), Zero, RInt(100)}

\* The variables the constructor has yet to write, while it has not run.
NotConstructed ==
    /\ data_with_indicators = None
    /\ bars_processed = 0
    /\ signals_generated = 0
    /\ orders_executed = 0
    /\ current_cash = Zero
    /\ positions = NoPositions
    /\ trades = <<>>
    /\ equity_curve = <<>>
    /\ fills = <<>>
    /\ market_event = None
    /\ signal_event = None
    /\ order = None
    /\ fill = None

\* A call BacktestEngine(data, strategy, initial_capital, commission_rate,
\* slippage_rate, position_size_pct, enable_regime_detection) is about to
\* be made: the variables of the arguments hold the arguments, and the
\* strategy is a freshly constructed CompositeStrategy.
InitConstruct ==
    /\ pc = "construct"
    /\ data \in CompositeSeries
    /\ initial_capital \in ConstructorCapitals
    /\ commission_rate = Zero
    /\ slippage_rate = Zero
    /\ position_size_pct \in PositionSizePcts
    /\ enable_regime_detection \in BOOLEAN
    /\ NotConstructed
    /\ regime_filter = None
    /\ sub_regime_filter = None
    /\ _entry_signals = None
    /\ _exit_signals = None
    /\ _in_position = FALSE
    /\ _regime_skipped_count = 0
    /\ NoEvaluation
    /\ NoSerialization
    /\ first_run = None
    /\ NoClassification
    /\ NoCall
    /\ NoBuiltIn

\* BacktestEngine.__init__ with a Portfolio whose trade list is shared by
\* all instances.
Construct_SharedTrades ==
    /\ pc = "construct"
    /\ position_size_pct' = ClampPositionSize(position_size_pct)
    /\ current_cash' = initial_capital
    /\ positions' = NoPositions
    /\ trades' = trades
    /\ equity_curve' = <<>>
    /\ fills' = <<>>
    /\ data_with_indicators' =
          IF enable_regime_detection THEN Some(_prepare_regime_data(data)) ELSE None
    /\ bars_processed' = 0
    /\ signals_generated' = 0
    /\ orders_executed' = 0
    /\ pc' = "initialize"
    /\ UNCHANGED <<data, initial_capital, commission_rate, slippage_rate,
                   enable_regime_detection, strategy, offline, locals>>

\* BacktestEngine.__init__: the arguments are stored (position_size_pct
\* clamped), a Portfolio(initial_capital) is made, the regime rows are
\* prepared when regime detection is enabled, the statistics are zeroed.
\* No argument is checked.  run() follows.
Construct ==
    /\ pc = "construct"
    /\ position_size_pct' = ClampPositionSize(position_size_pct)
    /\ current_cash' = initial_capital
    /\ positions' = NoPositions
    /\ trades' = <<>>
    /\ equity_curve' = <<>>
    /\ fills' = <<>>
    /\ data_with_indicators' =
          IF enable_regime_detection THEN Some(_prepare_regime_data(data)) ELSE None
    /\ bars_processed' = 0
    /\ signals_generated' = 0
    /\ orders_executed' = 0
    /\ pc' = "initialize"
    /\ UNCHANGED <<data, initial_capital, commission_rate, slippage_rate,
                   enable_regime_detection, strategy, offline, locals>>

NextConstruct ==
    \/ Construct
    \/ Initialize
    \/ CreateMarketEvent
    \/ GenerateSignalComposite
    \/ ProcessSignal
    \/ ExecuteOrder
    \/ UpdateFromFill
    \/ RecordEquity
    \/ Finish

SpecConstruct == InitConstruct /\ [][NextConstruct]_vars

\* ------------------------------------------------------------------------
\* Properties of construction
\* ------------------------------------------------------------------------

\* The arguments of the call are outside what the configuration allows.
InvalidArguments ==
    \/ RLe(initial_capital, Zero)
    \/ ~(RGt(position_size_pct, Zero) /\ RLe(position_size_pct, One))

\* C20: a constructor call with initial_capital <= 0, or position_size_pct
\* outside (0, 1], fails: no engine comes out of it, and so no run.
C20_ConstructionFails ==
    [][(pc = "construct" /\ InvalidArguments) => pc' = "construct"]_vars

\* ------------------------------------------------------------------------
\* A composite run on candles, and a second run on the same inputs or on
\* candles that differ from a bar on
\* ------------------------------------------------------------------------

\* Every candle series starts with this many bars of one price, so that
\* the windows of add_all_indicators are full on the bars that follow.
WarmUp == BollingerPeriod

WarmUpClose == RInt(4)

\* The candle frame of a series of closes; bar k opens at time k.
Candles(closes) == [k \in 1..Len(closes) |-> [open_time |-> k, close |-> closes[k]]]

\* The closes of the warm-up bars followed by the closes of tail.
AfterWarmUp(tail) == [k \in 1..(WarmUp + Len(tail)) |-> IF k <= WarmUp THEN WarmUpClose ELSE tail[k - WarmUp]]

ReplaySeries ==
    {Candles(AfterWarmUp(tail)) :
        tail \in UNION {[1..n -> ClosePrices] : n \in 0..MaxBars}}

\* The strategies of these runs: entry and exit are one signal each, on
\* the moving average of the close.
ReplayThreshold == RInt(2)

ReplayPeriods == {1, 2}

\* Entry and exit operator of a strategy.
ReplayOperators == {<<">", "<">>, <<"cross_above", "cross_below">>}

ReplaySignal(operator, period) ==
    IndicatorSignal(operator, "SMA", [period |-> period],
                    Condition(operator, ReplayThreshold, None), "1h", None)

ReplayRegimeFilters == {None, Some(<<"RANGE">>)}

\* A call BacktestEngine(data, strategy) is about to be made for a freshly
\* constructed CompositeStrategy(name, entry_logic, exit_logic,
\* regime_filter); regime detection is enabled, as it is by default.
InitReplay ==
    /\ pc = "construct"
    /\ data \in ReplaySeries
    /\ initial_capital \in InitialCapitals
    /\ commission_rate = Zero
    /\ slippage_rate = Zero
    /\ position_size_pct = One
    /\ enable_regime_detection = TRUE
    /\ NotConstructed
    /\ \E period \in ReplayPeriods, o \in ReplayOperators :
          /\ entry_logic = Some(Leaf(ReplaySignal(o[1], period)))
          /\ exit_logic = Some(Leaf(ReplaySignal(o[2], period)))
    /\ regime_filter \in ReplayRegimeFilters
    /\ sub_regime_filter = None
    /\ _entry_signals = None
    /\ _exit_signals = None
    /\ _in_position = FALSE
    /\ _regime_skipped_count = 0
    /\ indicator_values = None
    /\ index = None
    /\ result = None
    /\ NoSerialization
    /\ first_run = None
    /\ NoClassification
    /\ NoCall
    /\ NoBuiltIn

\* run(): strategy.initialize(data), first part: the signals of the trees
\* calculate their indicator over the full frame (entry and exit signal
\* share indicator and parameters, so there is one series).
CalculateIndicator ==
    /\ pc = "initialize"
    /\ indicator_values' = Some(_calculate_on_dataframe(entry_logic[1].signal[1], data))
    /\ pc' = "evaluate_series"
    /\ UNCHANGED <<engine, strategy, serialization, entry_logic, exit_logic,
                   index, result>>

\* run(): strategy.initialize(data), second part: _regime_skipped_count = 0
\* and the entry and the exit tree are evaluated over the full series.
InitializeTrees ==
    /\ pc = "evaluate_series"
    /\ _regime_skipped_count' = 0
    /\ _entry_signals' = Some(LogicNode_evaluate_series(entry_logic[1]))
    /\ _exit_signals' = Some(LogicNode_evaluate_series(exit_logic[1]))
    /\ pc' = "bar"
    /\ UNCHANGED <<engine, evaluation, serialization, regime_filter,
                   sub_regime_filter, _in_position>>

\* What a finished run hands on for comparison: its candles, its regime
\* rows, its pre-computed signals, and what run() returned.  cut is the
\* last bar the next run's candles share with it.
Earlier(cut) ==
    [cut |-> cut,
     data |-> data,
     regimes |-> data_with_indicators[1],
     entry_signals |-> _entry_signals[1],
     exit_signals |-> _exit_signals[1],
     fills |-> fills,
     trades |-> trades,
     equity_curve |-> equity_curve]

\* After a run has returned, a second run is set up: a freshly constructed
\* CompositeStrategy with the same parameters (CompositeStrategy.__init__)
\* and a constructor call with the same configuration, on candles that
\* equal the first run's up to bar cut and are arbitrary after it (for the
\* last bar as cut, on the same candles).
Replay ==
    /\ pc = "done"
    /\ first_run = None
    /\ \E cut \in WarmUp..Len(data) :
          \E tail \in [(cut + 1)..Len(data) -> ClosePrices] :
             /\ first_run' = Some(Earlier(cut))
             /\ data' = [k \in 1..Len(data) |->
                            IF k <= cut THEN data[k]
                            ELSE [open_time |-> data[k].open_time, close |-> tail[k]]]
    /\ _entry_signals' = None
    /\ _exit_signals' = None
    /\ _in_position' = FALSE
    /\ _regime_skipped_count' = 0
    /\ indicator_values' = None
    /\ pc' = "construct"
    /\ UNCHANGED <<initial_capital, commission_rate, slippage_rate,
                   position_size_pct, enable_regime_detection,
                   data_with_indicators, regime_filter, sub_regime_filter,
                   entry_logic, exit_logic, index, result, serialization,
                   bars_processed, signals_generated, orders_executed,
                   portfolio, equity_curve, locals, classification, calls, built_in>>

NextReplay ==
    \/ Construct
    \/ CalculateIndicator
    \/ InitializeTrees
    \/ CreateMarketEvent
    \/ GenerateSignalComposite
    \/ ProcessSignal
    \/ ExecuteOrder
    \/ UpdateFromFill
    \/ RecordEquity
    \/ Finish
    \/ Replay

SpecReplay == InitReplay /\ [][NextReplay]_vars

\* ------------------------------------------------------------------------
\* Properties of two runs
\* ------------------------------------------------------------------------

\* A second run has been set up.
Replayed == first_run # None

\* What the first run handed on.
First == first_run[1]

\* The fills of a list that were made at bars up to bar cut.
FillsUpTo(fs, cut) == SelectSeq(fs, LAMBDA f : f.timestamp <= data[cut].open_time)

MaxUpdates == 5

\* AdaptiveThresholds(window): the windows tried.
ThresholdWindows == 0..3

\* update(atr_normalized, boll_width): the values tried.
AtrSamples == {Rat(1, 100), Rat(2, 100)}
BollSamples == {Rat(3, 100), Rat(8, 100)}

\* Nothing but an AdaptiveThresholds exists.
InitThresholds ==
    /\ \E window \in ThresholdWindows : classifier = Some(AdaptiveThresholds(window))
    /\ frame = <<>>
    /\ regimes = <<>>
    /\ samples = <<>>
    /\ NoCall
    /\ NoBuiltIn
    /\ NoEngine
    /\ NoStrategy
    /\ NoEvaluation
    /\ NoSerialization
    /\ pc = "update"

\* thresholds.update(atr_normalized, boll_width)
Update ==
    /\ classifier # None
    /\ Len(samples) < MaxUpdates
    /\ \E atr_normalized \in AtrSamples, boll_width \in BollSamples :
          /\ classifier' = Some(AdaptiveThresholds_update(classifier[1], atr_normalized, boll_width))
          /\ samples' = Append(samples, <<atr_normalized, boll_width>>)
    /\ UNCHANGED <<backtest, pc, strategy, evaluation, serialization, first_run,
                   frame, regimes, calls, built_in>>

NextThresholds == Update

SpecThresholds == InitThresholds /\ [][NextThresholds]_vars

\* C24: after n calls of update() with window W both buffers have length
\* min(n, W), never more than W, and hold the most recent min(n, W)
\* samples in arrival order.
C24_BoundedFifo ==
    classifier # None =>
        LET self == classifier[1]
            n == Len(samples)
            kept == IMin(n, self.window)
        IN  /\ Len(self.atr_buffer) = kept
            /\ Len(self.boll_width_buffer) = kept
            /\ Len(self.atr_buffer) <= self.window
            /\ \A i \in 1..kept :
                  /\ self.atr_buffer[i] = samples[n - kept + i][1]
                  /\ self.boll_width_buffer[i] = samples[n - kept + i][2]

\* A full buffer of two or more samples has evicted its oldest sample,
\* which differed from the one now at its head.
C24_Witness ==
    /\ classifier # None
    /\ classifier[1].window >= 2
    /\ Len(samples) > classifier[1].window
    /\ samples[1][1] # samples[Len(samples) - classifier[1].window + 1][1]
    /\ classifier[1].atr_buffer[1] # classifier[1].atr_buffer[2]

\* ------------------------------------------------------------------------
\* A classifier on its own: detect_regime called row by row
\* ------------------------------------------------------------------------

\* RegimeConfig.adaptive_window: the windows tried.  get_thresholds leaves
\* its defaults after min(window // 2, 30) samples: after 1 and after 2.
ClassifyWindows == {2, 4}

\* A row of indicators at close 100: its true-range average, and Bollinger
\* bands half_width above and below a middle of 100.
VolatilityRow(range, half_width) ==
    [close |-> RInt(100), atr |-> range, bb_middle |-> RInt(100),
     bb_upper |-> RAdd(RInt(100), half_width),
     bb_lower |-> RSub(RInt(100), half_width)]

\* A row of the warm-up: no ATR and no bands yet.
WarmUpRow ==
    [close |-> RInt(100), atr |-> NaN, bb_middle |-> NaN, bb_upper |-> NaN, bb_lower |-> NaN]

\* A row with every indicator, in a strong rising trend with momentum.
TrendingRow ==
    [close |-> RInt(100), atr |-> RInt(1), bb_middle |-> RInt(100),
     bb_upper |-> RInt(101), bb_lower |-> RInt(99),
     adx |-> RInt(30), sma_20 |-> RInt(95), sma_50 |-> RInt(90), sma_200 |-> RInt(80),
     roc |-> RInt(1), macd_histogram |-> RInt(1), rsi |-> RInt(60)]

\* The rows tried: normalized ATR 0.004, 0.01, 0.02 around the defaults
\* 0.005 and 0.015; band width 0.01 and 0.08 around 0.02 and 0.06.
ClassifyRows ==
    {WarmUpRow, TrendingRow}
    \cup {VolatilityRow(range, half_width) :
             range \in {Rat(4, 10), RInt(1), RInt(2)}, half_width \in {Rat(1, 2), RInt(4)}}

ClassifyFrames == UNION {[1..n -> ClassifyRows] : n \in 0..MaxBars}

\* MarketRegimeClassifier(RegimeConfig(adaptive_window=window)), and a
\* frame of indicator rows to classify.
InitClassify ==
    /\ \E window \in ClassifyWindows : classifier = Some(AdaptiveThresholds(window))
    /\ frame \in ClassifyFrames
    /\ regimes = <<>>
    /\ samples = <<>>
    /\ NoCall
    /\ NoBuiltIn
    /\ NoEngine
    /\ NoStrategy
    /\ NoEvaluation
    /\ NoSerialization
    /\ pc = "detect_regime"

\* classifier.detect_regime(row), on the next row of the frame
DetectRegime ==
    /\ classifier # None
    /\ Len(regimes) < Len(frame)
    /\ LET detected == detect_regime(classifier[1], frame[Len(regimes) + 1])
       IN  /\ regimes' = Append(regimes, detected.regime)
           /\ classifier' = Some(detected.adaptive_thresholds)
    /\ UNCHANGED <<backtest, pc, strategy, evaluation, serialization, first_run,
                   frame, samples, calls, built_in>>

NextClassify == DetectRegime

SpecClassify == InitClassify /\ [][NextClassify]_vars

\* A fresh classifier with the window of the one at hand.
Fresh == AdaptiveThresholds(classifier[1].window)

\* C23: classify_dataframe over the series yields, for every bar t, the
\* record detect_regime gave when called bar by bar on the bars up to t, and
\* the adaptive thresholds after bar t are those a fresh classifier has
\* after the bars up to t alone.
C23_EventDriven ==
    (classifier # None /\ pc = "detect_regime") =>
        /\ regimes = SubSeq(ClassifyFrom(frame, 1, Fresh), 1, Len(regimes))
        /\ \A t \in 1..Len(regimes) :
              regimes[t] = ClassifyFrom(SubSeq(frame, 1, t), 1, Fresh)[t]
        /\ classifier[1] = ThresholdsFrom(SubSeq(frame, 1, Len(regimes)), 1, Fresh)

\* A frame of two or more rows is classified to its end, and its last row
\* got a volatility state a fresh classifier would not give it: the
\* thresholds had adapted to the rows before it.
C23_Witness ==
    /\ classifier # None
    /\ pc = "detect_regime"
    /\ Len(frame) >= 2
    /\ Len(regimes) = Len(frame)
    /\ regimes[Len(frame)].volatility_state # detect_regime(Fresh, frame[Len(frame)]).regime.volatility_state

\* The volatility state of a row when its own sample is in the buffers
\* before p30 and p70 are read.
VolatilityUpdateFirst(self, row) ==
    LET updated == detect_volatility_state(self, row, get_thresholds(self, RegimeConfig)).adaptive_thresholds
    IN  detect_volatility_state(self, row, get_thresholds(updated, RegimeConfig)).volatility_state

\* C25: when a bar is classified, the adaptive thresholds are updated with
\* the bar's normalized ATR and Bollinger width first and p30/p70 are read
\* afterwards: the thresholds that decide the bar's volatility state
\* include the bar's own sample.
C25_UpdateThenRead ==
    [][Len(regimes') = Len(regimes) + 1 =>
          regimes'[Len(regimes')].volatility_state
              = VolatilityUpdateFirst(classifier[1], frame[Len(regimes')])]_vars

\* ------------------------------------------------------------------------
\* Functions called on their own
\* ------------------------------------------------------------------------

\* The values an indicator of a row is given: undefined, or a number.
AdxValues == {NaN} \cup {RInt(n) : n \in {15, 20, 22, 25, 30, 40, 45}}
PriceValues == {NaN} \cup {RInt(n) : n \in 1..3}
SignedValues == {NaN} \cup {RInt(n) : n \in -1..1}
RsiValues == {NaN} \cup {RInt(n) : n \in {40, 45, 50, 55, 60}}

TrendStates == {"uptrend", "downtrend", "neutral"}
VolatilityStates == {"low", "high"}
MomentumStates == {"bullish", "bearish", "weak"}
SimplifiedRegimes == {"TREND_UP", "TREND_DOWN", "RANGE", "CHOPPY", "NEUTRAL"}

\* A call: the function's name and its arguments.
Call(function, arguments) == [function |-> function, arguments |-> arguments]

\* The function called last, if any.
Called(function) == call # None /\ call[1].function = function

\* Nothing is called yet.
InitCalls ==
    /\ NoCall
    /\ NoBuiltIn
    /\ NoClassification
    /\ NoEngine
    /\ NoStrategy
    /\ NoEvaluation
    /\ NoSerialization
    /\ pc = "call"

\* What a call leaves alone.
Untouched == <<backtest, strategy, evaluation, serialization, first_run, classification, built_in>>

\* classifier.detect_trend_state(row)
DetectTrendState ==
    /\ pc = "call"
    /\ \E adx \in AdxValues, price \in PriceValues, sma_20 \in {NaN, RInt(2)},
          sma_50 \in {NaN, RInt(2)}, sma_200 \in PriceValues :
          LET row == [adx |-> adx, close |-> price, sma_20 |-> sma_20,
                      sma_50 |-> sma_50, sma_200 |-> sma_200]
          IN  /\ call' = Some(Call("detect_trend_state", row))
              /\ returned' = detect_trend_state(row)
    /\ pc' = "returned"
    /\ UNCHANGED Untouched

\* classifier.detect_momentum_state(row)
DetectMomentumState ==
    /\ pc = "call"
    /\ \E roc \in SignedValues, macd_hist \in SignedValues, rsi \in RsiValues :
          LET row == [roc |-> roc, macd_histogram |-> macd_hist, rsi |-> rsi]
          IN  /\ call' = Some(Call("detect_momentum_state", row))
              /\ returned' = detect_momentum_state(row)
    /\ pc' = "returned"
    /\ UNCHANGED Untouched

\* classifier.map_to_simplified_regime(trend, volatility, momentum)
MapToSimplifiedRegime ==
    /\ pc = "call"
    /\ \E trend \in TrendStates, volatility \in VolatilityStates, momentum \in MomentumStates :
          /\ call' = Some(Call("map_to_simplified_regime",
                               [trend |-> trend, volatility |-> volatility, momentum |-> momentum]))
          /\ returned' = map_to_simplified_regime(trend, volatility, momentum)
    /\ pc' = "returned"
    /\ UNCHANGED Untouched

\* The rows calculate_confidence is given: with an adx column or without.
ConfidenceRows ==
    {[adx |-> adx, rsi |-> rsi, macd_histogram |-> macd_hist] :
        adx \in AdxValues, rsi \in {NaN, RInt(50)}, macd_hist \in {NaN, RInt(1)}}
    \cup {[rsi |-> rsi, macd_histogram |-> macd_hist] :
             rsi \in {NaN, RInt(50)}, macd_hist \in {NaN, RInt(1)}}

\* classifier.calculate_confidence(row, trend, momentum)
CalculateConfidence ==
    /\ pc = "call"
    /\ \E row \in ConfidenceRows, trend \in TrendStates, momentum \in MomentumStates :
          /\ call' = Some(Call("calculate_confidence",
                               [row |-> row, trend |-> trend, momentum |-> momentum]))
          /\ returned' = calculate_confidence(row, trend, momentum)
    /\ pc' = "returned"
    /\ UNCHANGED Untouched

\* ------------------------------------------------------------------------
\* Metrics (core/backtest/metrics.py) on a portfolio of closed trades
\* ------------------------------------------------------------------------

\* A float division by 0.0 raises.
ZeroDivisionError == "ZeroDivisionError"

\* What a failing float operation yields in place of a number.
Raise(error) == <<error>>

\* A value is a raised error, and no number.
Raised(value) == Len(value) = 1

\* float('inf'): a positive number over nothing
Infinity == <<1, 0>>

\* The most closed trades of a portfolio.
MaxTrades == 3

\* Trade.is_winner
is_winner(trade) == RGt(trade.pnl, Zero)

\* Portfolio.winning_trades
winning_trades(p) == SelectSeq(p.trades, is_winner)

\* Portfolio.losing_trades
losing_trades(p) == SelectSeq(p.trades, LAMBDA t : ~is_winner(t))

\* Portfolio.win_rate
win_rate(p) ==
    IF p.trades = <<>> THEN Zero
    ELSE RMul(Rat(Len(winning_trades(p)), Len(p.trades)), RInt(100))

\* Portfolio.total_return
total_return(p) ==
    IF p.equity_curve = <<>> THEN Zero
    ELSE IF p.initial_capital = Zero THEN Raise(ZeroDivisionError)
    ELSE RMul(RDiv(RSub(p.equity_curve[Len(p.equity_curve)][2], p.initial_capital),
                   p.initial_capital), RInt(100))

\* MetricsCalculator._final_value
_final_value(p) ==
    IF p.equity_curve = <<>> THEN p.initial_capital
    ELSE p.equity_curve[Len(p.equity_curve)][2]

\* MetricsCalculator._total_profit
_total_profit(p) == SumPnl(winning_trades(p))

\* sum(abs(trade.pnl) for trade in losing)
RECURSIVE SumAbsPnl(_)
SumAbsPnl(ts) == IF ts = <<>> THEN Zero ELSE RAdd(RAbs(ts[1].pnl), SumAbsPnl(Tail(ts)))

\* MetricsCalculator._total_loss
_total_loss(p) == SumAbsPnl(losing_trades(p))

\* MetricsCalculator._profit_factor
_profit_factor(p) ==
    IF _total_loss(p) = Zero
    THEN IF RGt(_total_profit(p), Zero) THEN Infinity ELSE Zero
    ELSE RDiv(_total_profit(p), _total_loss(p))

\* MetricsCalculator._avg_win
_avg_win(p) ==
    IF winning_trades(p) = <<>> THEN Zero
    ELSE RDiv(SumPnl(winning_trades(p)), RInt(Len(winning_trades(p))))

\* MetricsCalculator._avg_loss
_avg_loss(p) ==
    IF losing_trades(p) = <<>> THEN Zero
    ELSE RDiv(SumPnl(losing_trades(p)), RInt(Len(losing_trades(p))))

\* MetricsCalculator._avg_trade
_avg_trade(p) ==
    IF p.trades = <<>> THEN Zero
    ELSE RDiv(SumPnl(p.trades), RInt(Len(p.trades)))

\* The longest run of trades that all are winners (wins) or all are not.
RECURSIVE Streak(_, _, _, _)
Streak(ts, wins, current_streak, max_streak) ==
    IF ts = <<>> THEN max_streak
    ELSE IF is_winner(ts[1]) = wins
    THEN Streak(Tail(ts), wins, current_streak + 1,
                IF current_streak + 1 > max_streak THEN current_streak + 1 ELSE max_streak)
    ELSE Streak(Tail(ts), wins, 0, max_streak)

\* MetricsCalculator._max_win_streak
_max_win_streak(p) == IF p.trades = <<>> THEN 0 ELSE Streak(p.trades, TRUE, 0, 0)

\* MetricsCalculator._max_loss_streak
_max_loss_streak(p) == IF p.trades = <<>> THEN 0 ELSE Streak(p.trades, FALSE, 0, 0)

\* sum(trade.duration for trade in trades)
RECURSIVE SumDuration(_)
SumDuration(ts) == IF ts = <<>> THEN Zero ELSE RAdd(ts[1].duration, SumDuration(Tail(ts)))

\* MetricsCalculator._avg_trade_duration
_avg_trade_duration(p) ==
    IF p.trades = <<>> THEN Zero
    ELSE RDiv(RDiv(SumDuration(p.trades), RInt(Len(p.trades))), RInt(3600))

\* The most marks of an equity curve a metric is computed from.
MaxMarks == 3

\* [val for _, val in self.portfolio.equity_curve]
Values(p) == [k \in DOMAIN p.equity_curve |-> p.equity_curve[k][2]]

\* The loop of _max_drawdown from the k-th value on: the running peak, the
\* drawdown of the value against it, the lowest drawdown so far.  The
\* division by a peak of 0.0 raises.
RECURSIVE DrawdownFrom(_, _, _, _)
DrawdownFrom(values, k, peak, max_dd) ==
    IF k > Len(values) THEN max_dd
    ELSE LET new_peak == IF RGt(values[k], peak) THEN values[k] ELSE peak
         IN  IF new_peak = Zero THEN Raise(ZeroDivisionError)
             ELSE LET dd == RMul(RDiv(RSub(values[k], new_peak), new_peak), RInt(100))
                  IN  DrawdownFrom(values, k + 1, new_peak,
                                   IF RLt(dd, max_dd) THEN dd ELSE max_dd)

\* MetricsCalculator._max_drawdown
_max_drawdown(p) ==
    IF Len(p.equity_curve) < 2 THEN Zero
    ELSE DrawdownFrom(Values(p), 1, Values(p)[1], Zero)

\* _annual_return, _sharpe_ratio, _max_drawdown, _max_drawdown_duration of
\* an equity curve of fewer than two marks: each returns 0 at its first
\* test.
FewMarks(p) == IF Len(p.equity_curve) < 2 THEN Zero ELSE NaN

\* MetricsCalculator.calculate_all: the dict of metrics, or the error the
\* first failing entry raises.
calculate_all(p) ==
    IF Raised(total_return(p)) THEN [raised |-> total_return(p)[1]]
    ELSE IF Raised(win_rate(p)) THEN [raised |-> win_rate(p)[1]]
    ELSE [initial_capital |-> p.initial_capital,
          final_value |-> _final_value(p),
          total_return |-> total_return(p),
          annual_return |-> FewMarks(p),
          sharpe_ratio |-> FewMarks(p),
          max_drawdown |-> FewMarks(p),
          max_drawdown_duration |-> FewMarks(p),
          total_trades |-> Len(p.trades),
          winning_trades |-> Len(winning_trades(p)),
          losing_trades |-> Len(losing_trades(p)),
          win_rate |-> win_rate(p),
          total_profit |-> _total_profit(p),
          total_loss |-> _total_loss(p),
          profit_factor |-> _profit_factor(p),
          avg_win |-> _avg_win(p),
          avg_loss |-> _avg_loss(p),
          avg_trade |-> _avg_trade(p),
          max_win_streak |-> _max_win_streak(p),
          max_loss_streak |-> _max_loss_streak(p),
          avg_trade_duration |-> _avg_trade_duration(p)]

\* The closed trades tried: a loss, a trade at break-even, a win; each held
\* for two hours.
MetricTrades == {[pnl |-> pnl, duration |-> RInt(7200)] : pnl \in {RInt(-1), Zero, RInt(2)}}

\* Portfolio(initial_capital) after its trades, flat, with one equity mark
\* recorded or none.
MetricPortfolios ==
    {[initial_capital |-> capital, trades |-> ts,
      equity_curve |-> IF marked THEN <<<<1, RAdd(capital, SumPnl(ts))>>>> ELSE <<>>] :
        capital \in {Zero, RInt(100)},
        ts \in UNION {[1..n -> MetricTrades] : n \in 0..MaxTrades},
        marked \in BOOLEAN}

\* MetricsCalculator(portfolio).calculate_all()
CalculateAll ==
    /\ pc = "call"
    /\ \E p \in MetricPortfolios :
          /\ call' = Some(Call("calculate_all", p))
          /\ returned' = calculate_all(p)
    /\ pc' = "returned"
    /\ UNCHANGED Untouched

\* The values an equity curve is made of; the value 0 is that of a
\* portfolio that started with no capital.
MarkValues == {Zero, RInt(1), RInt(2), RInt(4)}

\* Portfolios whose equity curve has up to MaxMarks marks, at times 1, 2, ...
MarkedPortfolios ==
    UNION {{[initial_capital |-> RInt(2), trades |-> <<>>,
      equity_curve |-> [k \in 1..n |-> <<k, vs[k]>>]] :
        vs \in [1..n -> MarkValues]} : n \in 0..MaxMarks}

\* MetricsCalculator(portfolio)._max_drawdown()
MaxDrawdown ==
    /\ pc = "call"
    /\ \E p \in MarkedPortfolios :
          /\ call' = Some(Call("_max_drawdown", p))
          /\ returned' = _max_drawdown(p)
    /\ pc' = "returned"
    /\ UNCHANGED Untouched

\* The longest series an indicator is computed on by itself.
MaxRows == 4

\* The periods and the closes of those series; a bar's high lies 1 above
\* its close and its low 1 below.
IndicatorPeriods == {2, 3}

RowCloses == {RInt(2), RInt(3), RInt(5)}

CloseSeries == UNION {[1..n -> RowCloses] : n \in 1..MaxRows}

\* TechnicalIndicators.sma(data, period)
Sma ==
    /\ pc = "call"
    /\ \E series \in CloseSeries, period \in IndicatorPeriods :
          /\ call' = Some(Call("sma", [data |-> series, period |-> period]))
          /\ returned' = sma(series, period)
    /\ pc' = "returned"
    /\ UNCHANGED Untouched

\* TechnicalIndicators.rsi(data, period)
Rsi ==
    /\ pc = "call"
    /\ \E series \in CloseSeries, period \in IndicatorPeriods :
          /\ call' = Some(Call("rsi", [data |-> series, period |-> period]))
          /\ returned' = TechnicalIndicators_rsi(series, period)
    /\ pc' = "returned"
    /\ UNCHANGED Untouched

\* TechnicalIndicators.atr(high, low, close, period)
Atr ==
    /\ pc = "call"
    /\ \E series \in CloseSeries, period \in IndicatorPeriods :
          /\ call' = Some(Call("atr", [data |-> series, period |-> period]))
          /\ returned' = atr([k \in DOMAIN series |-> RAdd(series[k], One)],
                             [k \in DOMAIN series |-> RSub(series[k], One)],
                             series, period)
    /\ pc' = "returned"
    /\ UNCHANGED Untouched

\* ------------------------------------------------------------------------
\* Construction of a strategy
\* ------------------------------------------------------------------------

\* Strategy.__init__ (name is computed from the parameters and left out)
Strategy(parameters) == [parameters |-> parameters, data_buffer |-> <<>>]

\* MovingAverageCrossover.__init__: the object, or the error raised
MovingAverageCrossover(fast_period, slow_period, ma_type) ==
    IF fast_period >= slow_period
    THEN [raised |-> ValueError]
    ELSE [strategy |-> Strategy([fast_period |-> fast_period, slow_period |-> slow_period, ma_type |-> upper(ma_type)]),
          prev_fast_ma |-> None, prev_slow_ma |-> None]

\* MACDCross.__init__
MACDCross(fast_period, slow_period, signal_period) ==
    IF fast_period >= slow_period
    THEN [raised |-> ValueError]
    ELSE [strategy |-> Strategy([fast_period |-> fast_period, slow_period |-> slow_period, signal_period |-> signal_period]),
          prev_macd |-> None, prev_signal |-> None, current_macd |-> None, current_signal |-> None]

\* RSIReversal.__init__
RSIReversal(rsi_period, oversold, overbought) ==
    IF ~RLt(oversold, overbought)
    THEN [raised |-> ValueError]
    ELSE [strategy |-> Strategy([rsi_period |-> rsi_period, oversold |-> oversold, overbought |-> overbought]),
          current_rsi |-> None]

\* BollingerBands.__init__
BollingerBands(period, num_std, touch_threshold) ==
    IF period < 2
    THEN [raised |-> ValueError]
    ELSE IF RLe(num_std, Zero)
    THEN [raised |-> ValueError]
    ELSE [strategy |-> Strategy([period |-> period, num_std |-> num_std, touch_threshold |-> touch_threshold]),
          current_bands |-> None]

\* The periods, RSI thresholds and band widths constructors are called with.
StrategyPeriods == 0..3

RsiThresholds == {RInt(30), RInt(50), RInt(70)}

BandWidths == {RInt(-1), Zero, Rat(1, 2), RInt(2)}

\* regime_filter arguments: absent, empty, valid, and with a value that is
\* no simplified regime (one of them a valid trend state).
ConstructorRegimeFilters ==
    RegimeFilters \cup {Some(<<>>), Some(<<"TREND_UP", "SIDEWAYS">>), Some(<<"uptrend">>)}

\* sub_regime_filter arguments: absent, empty, valid, with an unknown
\* component, and with a value of another component.
ConstructorSubRegimeFilters ==
    SubRegimeFilters \cup {Some(<<>>),
                          Some([trend |-> <<"uptrend">>, momentum |-> <<"weak", "bullish">>]),
                          Some([speed |-> <<"low">>]),
                          Some([trend |-> <<"uptrend", "low">>]),
                          Some([volatility |-> <<"medium">>])}

\* MovingAverageCrossover(fast_period, slow_period, ma_type)
ConstructMovingAverageCrossover ==
    /\ pc = "call"
    /\ \E fast_period \in StrategyPeriods, slow_period \in StrategyPeriods, ma_type \in {"SMA", "ema"} :
          /\ call' = Some(Call("MovingAverageCrossover", [fast_period |-> fast_period, slow_period |-> slow_period, ma_type |-> ma_type]))
          /\ returned' = MovingAverageCrossover(fast_period, slow_period, ma_type)
    /\ pc' = "returned"
    /\ UNCHANGED Untouched

\* MACDCross(fast_period, slow_period, signal_period)
ConstructMACDCross ==
    /\ pc = "call"
    /\ \E fast_period \in StrategyPeriods, slow_period \in StrategyPeriods, signal_period \in StrategyPeriods :
          /\ call' = Some(Call("MACDCross", [fast_period |-> fast_period, slow_period |-> slow_period, signal_period |-> signal_period]))
          /\ returned' = MACDCross(fast_period, slow_period, signal_period)
    /\ pc' = "returned"
    /\ UNCHANGED Untouched

\* RSIReversal(rsi_period, oversold, overbought)
ConstructRSIReversal ==
    /\ pc = "call"
    /\ \E rsi_period \in StrategyPeriods, oversold \in RsiThresholds, overbought \in RsiThresholds :
          /\ call' = Some(Call("RSIReversal", [rsi_period |-> rsi_period, oversold |-> oversold, overbought |-> overbought]))
          /\ returned' = RSIReversal(rsi_period, oversold, overbought)
    /\ pc' = "returned"
    /\ UNCHANGED Untouched

\* BollingerBands(period, num_std, touch_threshold)
ConstructBollingerBands ==
    /\ pc = "call"
    /\ \E period \in StrategyPeriods, num_std \in BandWidths :
          /\ call' = Some(Call("BollingerBands", [period |-> period, num_std |-> num_std]))
          /\ returned' = BollingerBands(period, num_std, Rat(1, 100))
    /\ pc' = "returned"
    /\ UNCHANGED Untouched

\* CompositeStrategy(name, entry_logic, exit_logic, regime_filter=...,
\* sub_regime_filter=...)
ConstructCompositeStrategy ==
    /\ pc = "call"
    /\ \E tree \in StrategyTrees, filter \in ConstructorRegimeFilters, sub_filter \in ConstructorSubRegimeFilters :
          /\ call' = Some(Call("CompositeStrategy", [regime_filter |-> filter, sub_regime_filter |-> sub_filter]))
          /\ returned' = CompositeStrategy("strategy", tree, tree, "", filter, sub_filter)
    /\ pc' = "returned"
    /\ UNCHANGED Untouched

\* ------------------------------------------------------------------------
\* Multi-timeframe data (composition/multi_timeframe.py)
\* A frame is a sequence of rows [timestamp, close] in ascending timestamp
\* order; a timestamp is the minute of the day.
\* ------------------------------------------------------------------------

\* MultiTimeframeData.TIMEFRAME_MINUTES, for the timeframes of the model
TIMEFRAME_MINUTES == [tf \in {"1h", "2h", "4h"} |-> IF tf = "1h" THEN 60 ELSE IF tf = "2h" THEN 120 ELSE 240]

\* df.index
Index(df) == {df[k].timestamp : k \in DOMAIN df}

\* df.index.get_loc(ts), zero-based
index_get_loc(df, ts) == (CHOOSE k \in DOMAIN df : df[k].timestamp = ts) - 1

\* The members of a set of timestamps in ascending order.
Ascending(S) == CHOOSE s \in [1..Cardinality(S) -> S] : \A i, j \in 1..Cardinality(S) : i < j => s[i] < s[j]

\* The latest of a non-empty set of timestamps.
Latest(S) == CHOOSE t \in S : \A u \in S : u <= t

\* The rows of a frame that fall in the bin [label, label + minutes).
Bin(df, label, minutes) == {k \in DOMAIN df : label <= df[k].timestamp /\ df[k].timestamp < label + minutes}

\* data.resample(rule).agg({'close': 'last'}).dropna(): bins start at
\* midnight, are closed and labelled on the left, and empty bins are dropped.
resample(df, minutes) ==
    LET labels == Ascending({(df[k].timestamp \div minutes) * minutes : k \in DOMAIN df})
    IN  [b \in DOMAIN labels |->
            [timestamp |-> labels[b],
             close |-> df[Latest(Bin(df, labels[b], minutes))].close]]

\* MultiTimeframeData(data_dict, primary_timeframe) with one higher timeframe
MultiTimeframeData(primary_data, primary_tf, higher_data, higher_tf) == [primary_data |-> primary_data, primary_tf |-> primary_tf, higher_data |-> higher_data, higher_tf |-> higher_tf]

\* MultiTimeframeData.from_single_timeframe(data, source_tf, [target_tf])
from_single_timeframe(df, source_tf, target_tf) ==
    IF TIMEFRAME_MINUTES[target_tf] <= TIMEFRAME_MINUTES[source_tf]
    THEN [raised |-> ValueError]
    ELSE MultiTimeframeData(df, source_tf, resample(df, TIMEFRAME_MINUTES[target_tf]), target_tf)

\* One entry of MultiTimeframeData._align_to_higher_tf: the higher-timeframe
\* timestamp a primary timestamp maps to, None when the mapping has no entry.
_align_to_higher_tf(primary_ts, higher_df, higher_tf_minutes) ==
    LET bar_number == primary_ts \div higher_tf_minutes
        higher_bar_start_hour == (bar_number * higher_tf_minutes) \div 60
        higher_ts == higher_bar_start_hour * 60
        available_bars == {t \in Index(higher_df) : t <= higher_ts}
    IN  IF higher_ts \in Index(higher_df) THEN Some(higher_ts)
        ELSE IF available_bars # {} THEN Some(Latest(available_bars))
        ELSE None

\* df.iloc[start_idx:idx + 1]
iloc_slice(df, start_idx, idx) == SubSeq(df, start_idx + 1, idx + 1)

\* The slice up to a zero-based position, lookback rows long when lookback
\* is truthy.
SliceTo(df, idx, lookback) ==
    IF lookback # 0
    THEN iloc_slice(df, IF idx - lookback + 1 > 0 THEN idx - lookback + 1 ELSE 0, idx)
    ELSE iloc_slice(df, 0, idx)

\* MultiTimeframeData.get_dataframe_slice(timeframe, primary_timestamp,
\* lookback); lookback = 0 stands for None.
get_dataframe_slice(self, timeframe, primary_timestamp, lookback) ==
    IF timeframe = self.primary_tf
    THEN SliceTo(self.primary_data, index_get_loc(self.primary_data, primary_timestamp), lookback)
    ELSE IF timeframe # self.higher_tf THEN <<>>
    ELSE LET aligned_ts == _align_to_higher_tf(primary_timestamp, self.higher_data,
                                               TIMEFRAME_MINUTES[self.higher_tf])
         IN  IF aligned_ts = None THEN <<>>
             ELSE SliceTo(self.higher_data, index_get_loc(self.higher_data, aligned_ts[1]), lookback)

\* IndicatorSignal.calculate_indicator(data) for a MultiTimeframeData and an
\* SMA signal of the given timeframe: the indicator on the timeframe's own
\* frame, read back at the bar each primary timestamp aligns to.
calculate_indicator_aligned(timeframe, period, mtf) ==
    LET tf_data == IF timeframe = mtf.primary_tf THEN mtf.primary_data ELSE mtf.higher_data
        values_on_tf == sma([k \in DOMAIN tf_data |-> tf_data[k].close], period)
    IN  [k \in DOMAIN mtf.primary_data |->
            LET aligned_data == get_dataframe_slice(mtf, timeframe, mtf.primary_data[k].timestamp, 1)
            IN  IF Len(aligned_data) > 0
                THEN values_on_tf[index_get_loc(tf_data, aligned_data[Len(aligned_data)].timestamp) + 1]
                ELSE NaN]

MaxHours == 4

PrimaryTimestamps == {60 * h : h \in 0..(MaxHours - 1)}

FrameCloses == {RInt(1), RInt(2)}

\* The 1h frames: any non-empty choice of hours, each with a close.
PrimaryFrames ==
    {[k \in DOMAIN Ascending(S) |-> [timestamp |-> Ascending(S)[k], close |-> c[Ascending(S)[k]]]] :
        S \in (SUBSET PrimaryTimestamps) \ {{}}, c \in [PrimaryTimestamps -> FrameCloses]}

HigherTimeframes == {"2h", "4h"}

\* A frame without the rows of the given timestamps (bars missing from the
\* supplied data).
Without(df, missing) == SelectSeq(df, LAMBDA row : row.timestamp \notin missing)

\* The data managers of the model: the higher frame resampled from the 1h
\* frame, possibly with bars missing.
Managers ==
    {LET built == from_single_timeframe(df, "1h", tf)
     IN  MultiTimeframeData(built.primary_data, built.primary_tf, Without(built.higher_data, missing), built.higher_tf) :
        df \in PrimaryFrames, tf \in HigherTimeframes, missing \in {{}, {0}, {120}}}

Lookbacks == {0, 1, 2}

\* MultiTimeframeData.get_dataframe_slice(timeframe, primary_timestamp, lookback)
GetDataframeSlice ==
    /\ pc = "call"
    /\ \E mtf \in Managers, timeframe \in {"1h"} \cup HigherTimeframes, lookback \in Lookbacks :
          \E primary_timestamp \in Index(mtf.primary_data) :
             /\ call' = Some(Call("get_dataframe_slice", [self |-> mtf, timeframe |-> timeframe, primary_timestamp |-> primary_timestamp, lookback |-> lookback]))
             /\ returned' = get_dataframe_slice(mtf, timeframe, primary_timestamp, lookback)
    /\ pc' = "returned"
    /\ UNCHANGED Untouched

\* IndicatorSignal(..., timeframe).calculate_indicator(MultiTimeframeData)
CalculateIndicatorAligned ==
    /\ pc = "call"
    /\ \E mtf \in Managers, period \in {1, 2} :
          /\ call' = Some(Call("calculate_indicator", [self |-> mtf, timeframe |-> mtf.higher_tf, period |-> period]))
          /\ returned' = calculate_indicator_aligned(mtf.higher_tf, period, mtf)
    /\ pc' = "returned"
    /\ UNCHANGED Untouched

NextCalls ==
    \/ DetectTrendState
    \/ DetectMomentumState
    \/ MapToSimplifiedRegime
    \/ CalculateConfidence
    \/ CalculateAll
    \/ MaxDrawdown
    \/ Sma
    \/ Rsi
    \/ Atr
    \/ ConstructMovingAverageCrossover
    \/ ConstructMACDCross
    \/ ConstructRSIReversal
    \/ ConstructBollingerBands
    \/ ConstructCompositeStrategy
    \/ GetDataframeSlice
    \/ CalculateIndicatorAligned

SpecCalls == InitCalls /\ [][NextCalls]_vars

\* The trend state as stated, of the five values of a row.
StatedTrend(adx, price, sma_20, sma_50, sma_200) ==
    IF isna(adx) \/ isna(price) \/ isna(sma_20) \/ isna(sma_50) THEN "neutral"
    ELSE IF RLt(adx, RInt(25)) THEN "neutral"
    ELSE IF ~isna(sma_200)
    THEN IF RGt(price, sma_50) /\ RGt(sma_50, sma_200) THEN "uptrend"
         ELSE IF RLt(price, sma_50) /\ RLt(sma_50, sma_200) THEN "downtrend"
         ELSE "neutral"
    ELSE IF RGt(price, sma_50) THEN "uptrend"
         ELSE IF RLt(price, sma_50) THEN "downtrend"
         ELSE "neutral"

\* C26: the trend state is neutral if any of ADX, close, SMA20, SMA50 is
\* undefined or ADX < 25; else, with SMA200 defined, uptrend iff
\* close > SMA50 > SMA200 and downtrend iff close < SMA50 < SMA200; with
\* SMA200 undefined, uptrend iff close > SMA50 and downtrend iff
\* close < SMA50; neutral otherwise.
C26_TrendState ==
    Called("detect_trend_state") =>
        LET row == call[1].arguments
        IN  returned = StatedTrend(row.adx, row.close, row.sma_20, row.sma_50, row.sma_200)

\* [condition] as a number
Bracket(condition) == IF condition THEN 1 ELSE 0

\* The two scores as stated, of defined inputs.
BullishScore(row) == Bracket(RGt(row.roc, Zero)) + Bracket(RGt(row.macd_histogram, Zero)) + Bracket(RGt(row.rsi, RInt(55)))
BearishScore(row) == Bracket(RLt(row.roc, Zero)) + Bracket(RLt(row.macd_histogram, Zero)) + Bracket(RLt(row.rsi, RInt(45)))

\* C27: the momentum state is weak when ROC, MACD histogram or RSI is
\* undefined; else bullish iff the bullish score is 2 or more, bearish iff
\* the bearish score is 2 or more, weak otherwise; the two scores are never
\* both 2 or more.
C27_MomentumState ==
    Called("detect_momentum_state") =>
        LET row == call[1].arguments
        IN  IF isna(row.roc) \/ isna(row.macd_histogram) \/ isna(row.rsi)
            THEN returned = "weak"
            ELSE /\ returned = "bullish" <=> BullishScore(row) >= 2
                 /\ returned = "bearish" <=> BearishScore(row) >= 2
                 /\ returned = "weak" <=> (BullishScore(row) < 2 /\ BearishScore(row) < 2)
                 /\ ~(BullishScore(row) >= 2 /\ BearishScore(row) >= 2)

\* An RSI of exactly 55 with a rising ROC and a flat MACD histogram: one
\* bullish point, and the momentum is weak.
C27_Witness ==
    /\ Called("detect_momentum_state")
    /\ call[1].arguments.rsi = RInt(55)
    /\ call[1].arguments.roc = RInt(1)
    /\ call[1].arguments.macd_histogram = Zero
    /\ returned = "weak"

\* C28: the simplified label of a triple is TREND_UP for uptrend with
\* bullish momentum, TREND_DOWN for downtrend with bearish momentum, CHOPPY
\* for high volatility with weak momentum and a neutral trend, RANGE for a
\* neutral trend with low volatility, NEUTRAL for every other triple; it
\* is always one of the five labels.
C28_SimplifiedMapping ==
    Called("map_to_simplified_regime") =>
        LET triple == call[1].arguments
        IN  /\ returned \in SimplifiedRegimes
            /\ returned = "TREND_UP" <=> (triple.trend = "uptrend" /\ triple.momentum = "bullish")
            /\ returned = "TREND_DOWN" <=> (triple.trend = "downtrend" /\ triple.momentum = "bearish")
            /\ returned = "CHOPPY" <=> (triple.volatility = "high" /\ triple.momentum = "weak" /\ triple.trend = "neutral")
            /\ returned = "RANGE" <=> (triple.trend = "neutral" /\ triple.volatility = "low")

\* A volatile triple without a trend whose momentum is not weak: NEUTRAL.
C28_Witness ==
    /\ Called("map_to_simplified_regime")
    /\ call[1].arguments = [trend |-> "neutral", volatility |-> "high", momentum |-> "bullish"]
    /\ returned = "NEUTRAL"

\* The confidence as stated.
StatedConfidence(row, trend, momentum) ==
    LET adx == row_get(row, "adx")
        a == IF isna(adx) THEN Zero
             ELSE IF RGt(adx, RInt(40)) THEN Rat(30, 100)
             ELSE IF ~RLt(adx, RInt(25)) THEN Rat(15, 100)
             ELSE IF RLt(adx, RInt(20)) THEN Rat(-10, 100)
             ELSE Zero
        b == IF (trend = "uptrend" /\ momentum = "bullish") \/ (trend = "downtrend" /\ momentum = "bearish")
             THEN Rat(20, 100)
             ELSE IF trend # "neutral" /\ momentum = "weak" THEN Rat(-10, 100)
             ELSE Zero
        undefined == Bracket(isna(adx)) + Bracket(isna(row_get(row, "rsi"))) + Bracket(isna(row_get(row, "macd_histogram")))
        c == RMul(RInt(undefined), Rat(-10, 100))
    IN  RMax(Zero, RMin(One, RAdd(RAdd(RAdd(Rat(5, 10), a), b), c)))

\* C29: the confidence lies in [0, 1] and is clamp(0.5 + a + b + c), with
\* a = 0.30 for ADX > 40, 0.15 for 25 <= ADX <= 40, -0.10 for ADX < 20;
\* b = 0.20 for a trend with its momentum, -0.10 for a trend with weak
\* momentum; c = -0.10 for each undefined one of ADX, RSI, MACD histogram.
C29_Confidence ==
    Called("calculate_confidence") =>
        /\ RLe(Zero, returned) /\ RLe(returned, One)
        /\ returned = StatedConfidence(call[1].arguments.row, call[1].arguments.trend, call[1].arguments.momentum)

\* The sum of the positive pnls, and of |pnl| of the others.
StatedProfit(ts) == SumPnl(SelectSeq(ts, LAMBDA t : RGt(t.pnl, Zero)))
StatedLoss(ts) == RSub(Zero, SumPnl(SelectSeq(ts, LAMBDA t : ~RGt(t.pnl, Zero))))

\* C30: profit_factor is total_profit / total_loss when total_loss > 0,
\* infinite when total_loss = 0 and total_profit > 0, and 0 when both are
\* 0; with an empty trade list win_rate = 0, profit_factor = 0 and no
\* metric computation raises.
C30_ProfitFactor ==
    Called("calculate_all") =>
        LET p == call[1].arguments
            profit == StatedProfit(p.trades)
            loss == StatedLoss(p.trades)
        IN  /\ "raised" \notin DOMAIN returned =>
                  returned.profit_factor =
                      IF RGt(loss, Zero) THEN RDiv(profit, loss)
                      ELSE IF RGt(profit, Zero) THEN Infinity
                      ELSE Zero
            /\ p.trades = <<>> =>
                  /\ "raised" \notin DOMAIN returned
                  /\ returned.win_rate = Zero
                  /\ returned.profit_factor = Zero

\* C22: given an empty candle series, or one whose open_time values are not
\* strictly increasing, the engine fails with an error instead of
\* completing the run: a run that returns had a series that is neither.
C22_DataErrors == pc = "done" => (data # <<>> /\ StrictlyIncreasing(data))


\* The arguments of the constructor called are among those that are refused.
RefusedArguments ==
    LET a == call[1].arguments
    IN  \/ (Called("MovingAverageCrossover") \/ Called("MACDCross")) /\ a.fast_period >= a.slow_period
        \/ Called("RSIReversal") /\ RLe(a.overbought, a.oversold)
        \/ Called("BollingerBands") /\ (a.period < 2 \/ RLe(a.num_std, Zero))
        \/ /\ Called("CompositeStrategy")
           /\ \/ /\ a.regime_filter # None
                 /\ \E k \in DOMAIN a.regime_filter[1] :
                       a.regime_filter[1][k] \notin {"TREND_UP", "TREND_DOWN", "RANGE", "CHOPPY", "NEUTRAL"}
              \/ /\ a.sub_regime_filter # None
                 /\ \E axis \in DOMAIN a.sub_regime_filter[1] :
                       \/ axis \notin {"trend", "volatility", "momentum"}
                       \/ \E k \in DOMAIN a.sub_regime_filter[1][axis] :
                             a.sub_regime_filter[1][axis][k] \notin
                                 (CASE axis = "trend" -> {"uptrend", "downtrend", "neutral"}
                                    [] axis = "volatility" -> {"low", "high"}
                                    [] axis = "momentum" -> {"bullish", "bearish", "weak"})

\* A strategy constructor is the function called.
ConstructorCalled ==
    \/ Called("MovingAverageCrossover")
    \/ Called("MACDCross")
    \/ Called("RSIReversal")
    \/ Called("BollingerBands")
    \/ Called("CompositeStrategy")

\* C21: a strategy constructor called with fast_period >= slow_period
\* (MovingAverageCrossover, MACDCross), oversold >= overbought (RSIReversal),
\* period < 2 or num_std <= 0 (BollingerBands), or a regime_filter value or
\* sub_regime_filter axis or value that is not a valid one (CompositeStrategy)
\* raises an error and returns no strategy object.
C21_ConstructionFails ==
    (pc = "returned" /\ ConstructorCalled /\ RefusedArguments)
        => (DOMAIN returned = {"raised"} /\ returned.raised = ValueError)

\* Every one of the five constructors has refused arguments of each kind
\* named: reached one state at a time, the composite with a value of another
\* axis in its sub_regime_filter.
C21_Witness ==
    /\ pc = "returned"
    /\ Called("CompositeStrategy")
    /\ call[1].arguments.regime_filter = None
    /\ call[1].arguments.sub_regime_filter = Some([trend |-> <<"uptrend", "low">>])
    /\ "raised" \in DOMAIN returned


\* The running maximum of the first i values.
RECURSIVE PeakAt(_, _)
PeakAt(values, i) == IF i = 1 THEN values[1] ELSE RMax(PeakAt(values, i - 1), values[i])

\* (v_i - peak_i) / peak_i * 100
DrawdownAt(values, i) ==
    RMul(RDiv(RSub(values[i], PeakAt(values, i)), PeakAt(values, i)), RInt(100))

\* The equity values of the portfolio _max_drawdown was called with.
CalledValues == Values(call[1].arguments)

\* The stated drawdown is defined: no running peak is 0.
PeaksNonZero == \A i \in DOMAIN CalledValues : PeakAt(CalledValues, i) # Zero

\* C31: _max_drawdown returns the minimum over all points i of
\* (v_i - peak_i) / peak_i * 100, peak_i the running maximum of v_0..v_i; the
\* result is <= 0, and it is 0 for a non-decreasing curve and for a curve of
\* fewer than 2 points.
C31_MaxDrawdown ==
    (pc = "returned" /\ Called("_max_drawdown")) =>
        /\ ~Raised(returned)
        /\ RLe(returned, Zero)
        /\ Len(CalledValues) < 2 => returned = Zero
        /\ (\A i \in 1..(Len(CalledValues) - 1) : RLe(CalledValues[i], CalledValues[i + 1]))
               => returned = Zero
        /\ Len(CalledValues) >= 2 =>
               /\ \A i \in DOMAIN CalledValues : RLe(returned, DrawdownAt(CalledValues, i))
               /\ \E i \in DOMAIN CalledValues : returned = DrawdownAt(CalledValues, i)


\* ------------------------------------------------------------------------
\* A portfolio on its own: update_from_fill called with any fills
\* ------------------------------------------------------------------------

\* The most fills a portfolio is handed.
MaxFills == 4

\* Quantities and prices of the fills.
FillQuantities == {RInt(1), RInt(2)}

FillPrices == {RInt(1), RInt(2)}

\* Portfolio(initial_capital=100)
InitPortfolio ==
    /\ data = <<>>
    /\ initial_capital = RInt(100)
    /\ commission_rate = Zero
    /\ slippage_rate = Zero
    /\ position_size_pct = Zero
    /\ enable_regime_detection = FALSE
    /\ data_with_indicators = None
    /\ bars_processed = 0
    /\ signals_generated = 0
    /\ orders_executed = 0
    /\ current_cash = initial_capital
    /\ positions = NoPositions
    /\ trades = <<>>
    /\ equity_curve = <<>>
    /\ fills = <<>>
    /\ market_event = None
    /\ signal_event = None
    /\ order = None
    /\ fill = None
    /\ first_run = None
    /\ NoClassification
    /\ NoCall
    /\ NoBuiltIn
    /\ NoStrategy
    /\ NoEvaluation
    /\ NoSerialization
    /\ pc = "update_from_fill"

\* total_cost / total_quantity raises ZeroDivisionError: a BUY that brings a
\* negative quantity back to 0.  The fill is stored by then and nothing else
\* is written.
DividesByZero(f) ==
    /\ f.direction = "BUY"
    /\ f.symbol \in DOMAIN positions
    /\ RAdd(positions[f.symbol].quantity, f.quantity) = Zero

\* portfolio.update_from_fill(fill, current_price), the fill kept in `fill`
UpdateFromFillAny ==
    /\ Len(fills) < MaxFills
    /\ \E direction \in {"BUY", "SELL"}, quantity \in FillQuantities, fill_price \in FillPrices :
          LET f == FillEvent(Len(fills) + 1, symbol, quantity, direction, fill_price, Zero, Zero)
              after == update_from_fill(f, fill_price)
          IN  /\ fill' = Some(f)
              /\ IF DividesByZero(f)
                 THEN /\ fills' = Append(fills, f)
                      /\ UNCHANGED <<current_cash, positions, trades>>
                 ELSE /\ current_cash' = after.current_cash
                      /\ positions' = after.positions
                      /\ trades' = after.trades
                      /\ fills' = after.fills
    /\ UNCHANGED <<config, bars_processed, signals_generated, orders_executed,
                   equity_curve, market_event, signal_event, order, pc, strategy,
                   offline>>

NextPortfolio == UpdateFromFillAny

SpecPortfolio == InitPortfolio /\ [][NextPortfolio]_vars

\* C36: after any sequence of update_from_fill calls with positive fill
\* quantities every open position has quantity > 0, and a SELL with no
\* position leaves cash, positions and trades unchanged.
C36_LongOnly ==
    [][fills' # fills =>
          /\ \A sym \in DOMAIN positions' : RGt(positions'[sym].quantity, Zero)
          /\ (fill'[1].direction = "SELL" /\ fill'[1].symbol \notin DOMAIN positions)
                => UNCHANGED <<current_cash, positions, trades>>]_vars


\* ------------------------------------------------------------------------
\* The composite strategy's own state against the portfolio
\* ------------------------------------------------------------------------

\* A bar of the run is over: the loop is about to take the next bar, or has
\* ended.
BarOver == pc \in {"bar", "done"} /\ bars_processed >= 1

\* C38: after every bar of a run that drives a CompositeStrategy starting
\* flat, the strategy's long/flat flag equals portfolio.has_position(symbol),
\* bars with a BUY the engine refused included.
C38_FlagFollowsPortfolio == BarOver => (_in_position = has_position(symbol))


\* The regime of the bar the loop is at is one a filter does not allow.
Disallowed ==
    /\ HasRegime
    /\ \/ Truthy(regime_filter) /\ ~SimplifiedInFilter
       \/ Truthy(sub_regime_filter) /\ ~AxesAllowed

\* C39: the skip counter grows by exactly one on every bar on which the
\* strategy is flat and the regime filter disallows the bar, whether the
\* entry tree fires there or not; it grows on no other bar, so never while
\* the strategy is long, and nothing else changes it.
C39_Step ==
    /\ pc = "signal" =>
          _regime_skipped_count' =
              IF ~_in_position /\ Disallowed
              THEN _regime_skipped_count + 1
              ELSE _regime_skipped_count
    /\ pc # "signal" => _regime_skipped_count' = _regime_skipped_count

C39_SkipCounter == [][C39_Step]_vars

\* C39 witness: the first bar was skipped while the entry tree did not fire
\* on it, the second was skipped while it fired, and the run went long on
\* the third, a bar of an allowed regime.
C39_Witness ==
    /\ bars_processed = 3
    /\ _regime_skipped_count = 2
    /\ ~_entry_signals[1][1]
    /\ _entry_signals[1][2]
    /\ _in_position
    /\ Len(fills) = 1


\* ------------------------------------------------------------------------
\* One CompositeStrategy instance driven by two engines in turn
\* ------------------------------------------------------------------------

\* An engine with regime detection off holds a freshly constructed
\* CompositeStrategy without filters; run() has not started.
InitReuse ==
    /\ data \in CompositeSeries
    /\ initial_capital \in InitialCapitals
    /\ commission_rate = Zero
    /\ slippage_rate = Zero
    /\ position_size_pct = One
    /\ data_with_indicators = None
    /\ enable_regime_detection = FALSE
    /\ NoStrategy
    /\ NoEvaluation
    /\ NoSerialization
    /\ first_run = None
    /\ NoClassification
    /\ NoCall
    /\ NoBuiltIn
    /\ bars_processed = 0
    /\ signals_generated = 0
    /\ orders_executed = 0
    /\ current_cash = initial_capital
    /\ positions = NoPositions
    /\ trades = <<>>
    /\ equity_curve = <<>>
    /\ fills = <<>>
    /\ pc = "initialize"
    /\ market_event = None
    /\ signal_event = None
    /\ order = None
    /\ fill = None

\* After run() has returned, BacktestEngine(data, strategy, ...) is called
\* again with the same strategy object and run() is entered: a new
\* portfolio and new counters (BacktestEngine.__init__), the strategy as
\* the first run left it.  first_run keeps how the first run ended.
RunAgain ==
    /\ pc = "done"
    /\ first_run = None
    /\ first_run' = Some([in_position |-> _in_position, fills |-> fills])
    /\ bars_processed' = 0
    /\ signals_generated' = 0
    /\ orders_executed' = 0
    /\ current_cash' = initial_capital
    /\ positions' = NoPositions
    /\ trades' = <<>>
    /\ equity_curve' = <<>>
    /\ fills' = <<>>
    /\ market_event' = None
    /\ signal_event' = None
    /\ order' = None
    /\ fill' = None
    /\ pc' = "initialize"
    /\ UNCHANGED <<config, strategy, evaluation, serialization, classification, calls, built_in>>

NextReuse ==
    \/ Initialize
    \/ CreateMarketEvent
    \/ GenerateSignalComposite
    \/ ProcessSignal
    \/ ExecuteOrder
    \/ UpdateFromFill
    \/ RecordEquity
    \/ Finish
    \/ RunAgain

SpecReuse == InitReuse /\ [][NextReuse]_vars

\* The run at hand is the second one of a strategy that ended the first
\* one long.
StartedLong == first_run # None /\ first_run[1].in_position

\* C40: initialize writes the entry and exit series and sets the skip
\* counter to 0 but leaves the long/flat flag as it was, and so does the
\* construction of the next engine; a strategy that ended a run long
\* therefore starts the next run long, emits no BUY before its exit tree
\* has fired, and its first signal is a SELL, for which the engine makes no
\* order and leaves the new, flat portfolio as it was.
C40_Step ==
    /\ pc = "initialize" =>
          /\ _in_position' = _in_position
          /\ _regime_skipped_count' = 0
          /\ _entry_signals' # None /\ _exit_signals' # None
    /\ pc = "done" => _in_position' = _in_position
    /\ (StartedLong /\ pc = "bar" /\ bars_processed = 0) => _in_position
    /\ (StartedLong /\ pc = "signal" /\ signals_generated = 0) =>
          \/ signal_event' = None
          \/ IsSell(signal_event') /\ ExitFires
    /\ (StartedLong /\ pc = "process" /\ signals_generated = 1) =>
          /\ IsSell(signal_event)
          /\ order' = None
          /\ pc' = "record"
          /\ UNCHANGED <<current_cash, positions, trades, fills>>

IndicatorCalled == Called("sma") \/ Called("rsi") \/ Called("atr")

\* C35: SMA(N), RSI(N) and ATR(N) of a series whose inputs are all defined
\* are undefined on the first N bars (indices 0..N-1, rows 1..N here).
C35_WarmUp ==
    (pc = "returned" /\ IndicatorCalled) =>
        \A k \in DOMAIN returned : k <= call[1].arguments.period => isna(returned[k])


\* ------------------------------------------------------------------------
\* The built-in strategies (core/backtest/strategies/base.py,
\* ma_crossover.py, macd_cross.py, rsi_reversal.py, bollinger_bands.py)
\* driven by the engine
\* ------------------------------------------------------------------------

\* The class of a strategy object, told by the state its constructor adds.
IsMovingAverageCrossover(self) == "prev_fast_ma" \in DOMAIN self

IsMACDCross(self) == "prev_macd" \in DOMAIN self

IsRSIReversal(self) == "current_rsi" \in DOMAIN self

IsBollingerBands(self) == "current_bands" \in DOMAIN self

\* _get_max_buffer_size of the four classes
_get_max_buffer_size(self) ==
    IF IsMovingAverageCrossover(self) THEN self.strategy.parameters.slow_period + 10
    ELSE IF IsMACDCross(self)
    THEN self.strategy.parameters.slow_period + self.strategy.parameters.signal_period + 50
    ELSE IF IsRSIReversal(self) THEN self.strategy.parameters.rsi_period + 20
    ELSE self.strategy.parameters.period + 10

\* data_buffer[-n:]
LastOf(list, n) == IF Len(list) <= n THEN list ELSE SubSeq(list, Len(list) - n + 1, Len(list))

\* Strategy.add_market_data
add_market_data(self, ev) ==
    [self EXCEPT !.strategy.data_buffer =
        LastOf(Append(self.strategy.data_buffer, ev), _get_max_buffer_size(self))]

\* Strategy.has_sufficient_data
has_sufficient_data(self, required_bars) == Len(self.strategy.data_buffer) >= required_bars

\* Strategy.get_closing_prices()
get_closing_prices(self) == [k \in DOMAIN self.strategy.data_buffer |-> self.strategy.data_buffer[k].close]

\* Strategy.calculate_sma: the average, or None
calculate_sma(period, prices) ==
    IF Len(prices) < period THEN None
    ELSE Some(RDiv(SumFrom(prices, Len(prices) - period + 1, Len(prices)), RInt(period)))

\* The loop of calculate_ema from the k-th price on.
RECURSIVE EmaFrom(_, _, _, _)
EmaFrom(prices, k, ema, multiplier) ==
    IF k > Len(prices) THEN ema
    ELSE EmaFrom(prices, k + 1, RAdd(RMul(RSub(prices[k], ema), multiplier), ema), multiplier)

\* Strategy.calculate_ema: the average, or None
calculate_ema(period, prices) ==
    IF Len(prices) < period THEN None
    ELSE Some(EmaFrom(prices, period + 1, RDiv(SumFrom(prices, 1, period), RInt(period)),
                      Rat(2, period + 1)))

\* What calculate_signals returns, or the error it raises, and the object
\* it leaves.
Outcome(signal, self) == [signal |-> signal, self |-> self]

Failure(error, self) == [raised |-> error, self |-> self]

\* MovingAverageCrossover.calculate_signals
MovingAverageCrossover_calculate_signals(self, ev) ==
    LET slow_period == self.strategy.parameters.slow_period
        fast_period == self.strategy.parameters.fast_period
        ma_type == self.strategy.parameters.ma_type
        prices == get_closing_prices(self)
    IN  IF ~has_sufficient_data(self, slow_period) THEN Outcome(None, self)
        ELSE IF ma_type \notin {"SMA", "EMA"} THEN Failure(ValueError, self)
        ELSE LET fast_ma == IF ma_type = "SMA" THEN calculate_sma(fast_period, prices)
                                               ELSE calculate_ema(fast_period, prices)
                 slow_ma == IF ma_type = "SMA" THEN calculate_sma(slow_period, prices)
                                               ELSE calculate_ema(slow_period, prices)
             IN  IF fast_ma = None \/ slow_ma = None THEN Outcome(None, self)
                 ELSE LET crossed ==
                              IF self.prev_fast_ma # None /\ self.prev_slow_ma # None
                              THEN IF /\ RLe(self.prev_fast_ma[1], self.prev_slow_ma[1])
                                      /\ RGt(fast_ma[1], slow_ma[1])
                                   THEN Some(SignalEvent(ev.timestamp, ev.symbol, "BUY"))
                                   ELSE IF /\ RLe(self.prev_slow_ma[1], self.prev_fast_ma[1])
                                           /\ RLt(fast_ma[1], slow_ma[1])
                                   THEN Some(SignalEvent(ev.timestamp, ev.symbol, "SELL"))
                                   ELSE None
                              ELSE None
                      IN  Outcome(crossed, [self EXCEPT !.prev_fast_ma = fast_ma,
                                                       !.prev_slow_ma = slow_ma])

\* macd_values of _calculate_macd: the MACD of every prefix of the prices
\* from slow_period prices on.
MacdValues(fast_period, slow_period, prices) ==
    [j \in 1..(Len(prices) - slow_period + 1) |->
        RSub(calculate_ema(fast_period, SubSeq(prices, 1, slow_period + j - 1))[1],
             calculate_ema(slow_period, SubSeq(prices, 1, slow_period + j - 1))[1])]

\* MACDCross._calculate_macd: <<macd, signal_line>>, each a number or None
_calculate_macd(self, fast_period, slow_period, signal_period) ==
    LET prices == get_closing_prices(self) \o <<>>
        fast_ema == calculate_ema(fast_period, prices)
        slow_ema == calculate_ema(slow_period, prices)
    IN  IF fast_ema = None \/ slow_ema = None THEN <<None, None>>
        ELSE IF Len(prices) < slow_period + signal_period THEN <<None, None>>
        ELSE LET macd_values == MacdValues(fast_period, slow_period, prices)
             IN  IF Len(macd_values) < signal_period THEN <<None, None>>
                 ELSE <<Some(RSub(fast_ema[1], slow_ema[1])),
                        calculate_ema(signal_period, macd_values)>>

\* MACDCross.calculate_signals
MACDCross_calculate_signals(self, ev) ==
    LET fast_period == self.strategy.parameters.fast_period
        slow_period == self.strategy.parameters.slow_period
        signal_period == self.strategy.parameters.signal_period
    IN  IF ~has_sufficient_data(self, slow_period + signal_period) THEN Outcome(None, self)
        ELSE LET lines == _calculate_macd(self, fast_period, slow_period, signal_period)
                 macd == lines[1]
                 signal_line == lines[2]
             IN  IF macd = None \/ signal_line = None THEN Outcome(None, self)
                 ELSE LET crossed ==
                              IF self.prev_macd # None /\ self.prev_signal # None
                              THEN IF /\ RLe(self.prev_macd[1], self.prev_signal[1])
                                      /\ RGt(macd[1], signal_line[1])
                                   THEN Some(SignalEvent(ev.timestamp, ev.symbol, "BUY"))
                                   ELSE IF /\ RLe(self.prev_signal[1], self.prev_macd[1])
                                           /\ RLt(macd[1], signal_line[1])
                                   THEN Some(SignalEvent(ev.timestamp, ev.symbol, "SELL"))
                                   ELSE None
                              ELSE None
                      IN  Outcome(crossed, [self EXCEPT !.current_macd = macd,
                                                       !.current_signal = signal_line,
                                                       !.prev_macd = macd,
                                                       !.prev_signal = signal_line])

\* max(change, 0) and abs(min(change, 0)) of the change into the k-th price
Gain(prices, k) == RMax(RSub(prices[k], prices[k - 1]), Zero)

Loss(prices, k) == RAbs(RMin(RSub(prices[k], prices[k - 1]), Zero))

\* RSIReversal._calculate_rsi: the RSI, or None
_calculate_rsi(self, period) ==
    LET prices == get_closing_prices(self)
        n == Len(prices)
    IN  IF n < period + 1 THEN None
        ELSE LET gains == [k \in 1..n |-> IF k = 1 THEN Zero ELSE Gain(prices, k)]
                 losses == [k \in 1..n |-> IF k = 1 THEN Zero ELSE Loss(prices, k)]
                 avg_gain == RDiv(SumFrom(gains, n - period + 1, n), RInt(period))
                 avg_loss == RDiv(SumFrom(losses, n - period + 1, n), RInt(period))
             IN  IF avg_loss = Zero THEN Some(RInt(100))
                 ELSE Some(RSub(RInt(100),
                                RDiv(RInt(100), RAdd(One, RDiv(avg_gain, avg_loss)))))

\* RSIReversal.calculate_signals (the strength of the signal is left out:
\* its divisions are by oversold when rsi < oversold and by
\* 100 - overbought when rsi > overbought, neither of which is 0 then)
RSIReversal_calculate_signals(self, ev) ==
    LET rsi_period == self.strategy.parameters.rsi_period
        oversold == self.strategy.parameters.oversold
        overbought == self.strategy.parameters.overbought
    IN  IF ~has_sufficient_data(self, rsi_period + 1) THEN Outcome(None, self)
        ELSE LET current == _calculate_rsi(self, rsi_period)
             IN  IF current = None THEN Outcome(None, self)
                 ELSE Outcome(IF RLt(current[1], oversold)
                              THEN Some(SignalEvent(ev.timestamp, ev.symbol, "BUY"))
                              ELSE IF RGt(current[1], overbought)
                              THEN Some(SignalEvent(ev.timestamp, ev.symbol, "SELL"))
                              ELSE None,
                              [self EXCEPT !.current_rsi = current])

\* BollingerBands._calculate_bands: middle, upper and lower, or None.  The
\* square root is rounded down to a multiple of 1 / SqrtScale.
_calculate_bands(self, period, num_std) ==
    LET prices == get_closing_prices(self)
        n == Len(prices)
    IN  IF n < period THEN None
        ELSE LET middle == RDiv(SumFrom(prices, n - period + 1, n), RInt(period))
                 variance == RDiv(SumSquaresFrom(prices, middle, n - period + 1, n), RInt(period))
                 std_dev == Sqrt(variance)
             IN  Some([middle |-> middle,
                       upper |-> RAdd(middle, RMul(std_dev, num_std)),
                       lower |-> RSub(middle, RMul(std_dev, num_std))])

\* BollingerBands.calculate_signals.  The two divisions are float
\* divisions: by a band width of 0.0 and by a lower band of 0.0 they raise.
BollingerBands_calculate_signals(self, ev) ==
    LET period == self.strategy.parameters.period
        num_std == self.strategy.parameters.num_std
        touch_threshold == self.strategy.parameters.touch_threshold
    IN  IF ~has_sufficient_data(self, period) THEN Outcome(None, self)
        ELSE LET bands == _calculate_bands(self, period, num_std)
             IN  IF bands = None THEN Outcome(None, self)
                 ELSE LET self1 == [self EXCEPT !.current_bands = bands]
                          current_price == ev.close
                          upper_band == bands[1].upper
                          lower_band == bands[1].lower
                          band_width == RSub(upper_band, lower_band)
                      IN  IF band_width = Zero THEN Failure(ZeroDivisionError, self1)
                          ELSE IF lower_band = Zero THEN Failure(ZeroDivisionError, self1)
                          ELSE LET lower_distance == RDiv(RSub(current_price, lower_band), lower_band)
                                   upper_distance == RDiv(RSub(upper_band, current_price), upper_band)
                               IN  Outcome(IF RLe(upper_distance, touch_threshold)
                                           THEN Some(SignalEvent(ev.timestamp, ev.symbol, "SELL"))
                                           ELSE IF RLe(lower_distance, touch_threshold)
                                           THEN Some(SignalEvent(ev.timestamp, ev.symbol, "BUY"))
                                           ELSE None,
                                           self1)

\* strategy.calculate_signals(market_event) of the object at hand
BuiltIn_calculate_signals(self, ev) ==
    IF IsMovingAverageCrossover(self) THEN MovingAverageCrossover_calculate_signals(self, ev)
    ELSE IF IsMACDCross(self) THEN MACDCross_calculate_signals(self, ev)
    ELSE IF IsRSIReversal(self) THEN RSIReversal_calculate_signals(self, ev)
    ELSE BollingerBands_calculate_signals(self, ev)


\* The most bars of a run with a built-in strategy.
MaxHistory == 4

\* The closes of those bars.
BuiltInCloses == {RInt(1), RInt(2), RInt(3), RInt(4)}

\* Candle series at times 1, 2, ...
BuiltInSeries ==
    UNION {{[k \in 1..n |-> [open_time |-> k, close |-> closes[k]]] :
               closes \in [1..n -> BuiltInCloses]} : n \in 0..MaxHistory}

\* The strategy objects that are driven, as their constructors return them.
BuiltInStrategies ==
    {MovingAverageCrossover(1, 2, "SMA"), MovingAverageCrossover(2, 3, "sma"),
     MovingAverageCrossover(1, 2, "EMA"),
     MACDCross(1, 2, 1),
     RSIReversal(1, RInt(30), RInt(70)), RSIReversal(2, RInt(30), RInt(70)),
     BollingerBands(2, RInt(2), Rat(1, 100)), BollingerBands(3, One, Rat(1, 10))}

\* BacktestEngine(data, strategy, initial_capital, commission_rate=0,
\* slippage_rate=0, position_size_pct=1, enable_regime_detection=False) with
\* a freshly constructed built-in strategy; run() has not started.
InitBuiltIn ==
    /\ data \in BuiltInSeries
    /\ initial_capital \in InitialCapitals
    /\ commission_rate = Zero
    /\ slippage_rate = Zero
    /\ position_size_pct = One
    /\ enable_regime_detection = FALSE
    /\ data_with_indicators = None
    /\ bars_processed = 0
    /\ signals_generated = 0
    /\ orders_executed = 0
    /\ current_cash = initial_capital
    /\ positions = NoPositions
    /\ trades = <<>>
    /\ equity_curve = <<>>
    /\ fills = <<>>
    /\ pc = "bar"
    /\ market_event = None
    /\ signal_event = None
    /\ order = None
    /\ fill = None
    /\ first_run = None
    /\ NoStrategy
    /\ NoEvaluation
    /\ NoSerialization
    /\ NoClassification
    /\ NoCall
    /\ built_in \in {Some(self) : self \in BuiltInStrategies}

\* _generate_signal: strategy.add_market_data(market_event), then
\* signal = strategy.calculate_signals(market_event).  An error raised there
\* leaves run() at once.
GenerateSignalBuiltIn ==
    /\ pc = "signal"
    /\ LET a == BuiltIn_calculate_signals(add_market_data(built_in[1], market_event[1]),
                                          market_event[1])
       IN  /\ built_in' = Some(a.self)
           /\ IF "raised" \in DOMAIN a
              THEN /\ pc' = "raised"
                   /\ UNCHANGED <<signal_event, signals_generated>>
              ELSE /\ signal_event' = a.signal
                   /\ signals_generated' =
                         IF a.signal # None /\ a.signal[1].signal_type # "HOLD"
                         THEN signals_generated + 1
                         ELSE signals_generated
                   /\ pc' = IF a.signal # None THEN "process" ELSE "record"
    /\ UNCHANGED <<config, strategy, evaluation, serialization, first_run,
                   classification, calls, bars_processed, orders_executed, portfolio,
                   equity_curve, market_event, order, fill>>

NextBuiltIn ==
    \/ CreateMarketEvent
    \/ GenerateSignalBuiltIn
    \/ ProcessSignal
    \/ ExecuteOrder
    \/ UpdateFromFill
    \/ RecordEquity
    \/ Finish

SpecBuiltIn == InitBuiltIn /\ [][NextBuiltIn]_vars


\* ------------------------------------------------------------------------
\* Properties of a run with a built-in strategy
\* ------------------------------------------------------------------------

\* The strategy object the engine drives.
Self == built_in[1]

\* Every close is above the one before it.
StrictlyRising == \A k \in 1..(Len(data) - 1) : RLt(data[k].close, data[k + 1].close)

\* Every bar has the same close.
ConstantPrice == \A k \in DOMAIN data : data[k].close = data[1].close

\* C32: a run of MovingAverageCrossover(fast, slow) with SMA over a strictly
\* increasing close series that outlasts the warm-up produces exactly one
\* BUY and no SELL, and ends with one open long position and
\* total_trades = 0.
C32_UptrendEntersOnce ==
    (/\ pc = "done"
     /\ IsMovingAverageCrossover(Self)
     /\ Self.strategy.parameters.ma_type = "SMA"
     /\ StrictlyRising
     /\ Len(data) > Self.strategy.parameters.slow_period) =>
        /\ signals_generated = 1
        /\ Len(fills) = 1
        /\ fills[1].direction = "BUY"
        /\ has_position(symbol)
        /\ total_trades = 0

\* C33: on a constant-price series no built-in strategy emits a BUY or a
\* SELL, and evaluating a bar never raises.
C33_ConstantPriceNoSignal ==
    ConstantPrice => (pc # "raised" /\ signals_generated = 0 /\ signal_event = None)

\* The bars a strategy needs before it answers: slow_period for the MA
\* cross, rsi_period + 1 for the RSI, slow + signal for the MACD, period for
\* the Bollinger bands.
WarmUpBars(self) ==
    IF IsMovingAverageCrossover(self) THEN self.strategy.parameters.slow_period
    ELSE IF IsMACDCross(self)
    THEN self.strategy.parameters.slow_period + self.strategy.parameters.signal_period
    ELSE IF IsRSIReversal(self) THEN self.strategy.parameters.rsi_period + 1
    ELSE self.strategy.parameters.period

\* C34: a built-in strategy fills the one signal slot of a bar at most once,
\* with a BUY only while the portfolio is flat and a SELL only while it is
\* long, and with nothing before its warm-up history is there.
C34_Step ==
    (pc = "signal" /\ pc' # "raised") =>
        /\ IsBuy(signal_event') => ~has_position(symbol)
        /\ IsSell(signal_event') => has_position(symbol)
        /\ signal_event' # None => bars_processed >= WarmUpBars(Self)

C34_SignalsFollowPosition == [][C34_Step]_vars


\* ------------------------------------------------------------------------
\* Alignment of a higher timeframe
\* ------------------------------------------------------------------------

\* The primary timestamps a higher-timeframe bar aggregates.
Aggregated(self, higher_ts) ==
    {t \in Index(self.primary_data) :
        higher_ts <= t /\ t < higher_ts + TIMEFRAME_MINUTES[self.higher_tf]}

\* The higher-timeframe bar a primary timestamp reads holds nothing later
\* than that timestamp.
CompleteAt(self, primary_timestamp) ==
    LET aligned_data == get_dataframe_slice(self, self.higher_tf, primary_timestamp, 1)
    IN  aligned_data # <<>> =>
            \A t \in Aggregated(self, aligned_data[Len(aligned_data)].timestamp) : t <= primary_timestamp

\* C37: multi-timeframe alignment has no look-ahead: the higher-timeframe
\* bar, and the indicator value, aligned to a primary timestamp p aggregates
\* no primary bar later than p.
C37_NoLookAhead ==
    /\ (pc = "returned" /\ Called("get_dataframe_slice")
           /\ call[1].arguments.timeframe = call[1].arguments.self.higher_tf) =>
          (returned # <<>> =>
              \A t \in Aggregated(call[1].arguments.self, returned[Len(returned)].timestamp) :
                  t <= call[1].arguments.primary_timestamp)
    /\ (pc = "returned" /\ Called("calculate_indicator")) =>
          \A p \in Index(call[1].arguments.self.primary_data) :
              CompleteAt(call[1].arguments.self, p)


====
